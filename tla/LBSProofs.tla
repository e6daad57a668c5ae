----------------------------- MODULE LBSProofs ------------------------------
(***************************************************************************)
(* Proofs about the LargeByteString of src/src/LBSfunc.c, for every growth *)
(* unit, memory limit and set of strings: the cursor stays inside the used *)
(* part and the used part inside the buffer, and no byte of the used part  *)
(* is one that nobody wrote.  They hold for converters that leave room for *)
(* the terminator (Fits).                                                  *)
(***************************************************************************)
EXTENDS LBS, TLAPS

Cells == Bytes \cup {Junk}

\* An LBS whose fields fit together; the sizes count only while up.
Sound(l) ==
  /\ l \in [ptr : Int, size : Int, asize : Nat, up : BOOLEAN, body : [0..l.asize-1 -> Cells]]
  /\ l.asize <= Limit
  /\ l.up => 0 <= l.ptr /\ l.ptr <= l.size /\ l.size <= l.asize

\* What writing functions preserve.
Written(l) == l.up => \A i \in 0..l.size-1 : l.body[i] # Junk

-----------------------------------------------------------------------------
(* Memory *)

LEMMA ResizedTyped ==
  ASSUME NEW m \in Nat, NEW n \in Nat, NEW b \in [0..m-1 -> Cells], NEW c \in Cells
  PROVE  /\ Resized(b, n, c) \in [0..n-1 -> Cells]
         /\ \A i \in 0..n-1 : i < m => Resized(b, n, c)[i] = b[i]
BY DEF Resized

LEMMA CopiedTyped ==
  ASSUME NEW m \in Nat, NEW b \in [0..m-1 -> Cells], NEW k \in Int, NEW t \in Seq(Cells)
  PROVE  /\ Copied(b, k, t) \in [0..m-1 -> Cells]
         /\ \A i \in 0..m-1 : i >= k /\ i < k + Len(t) => Copied(b, k, t)[i] = t[i-k+1]
         /\ \A i \in 0..m-1 : ~(i >= k /\ i < k + Len(t)) => Copied(b, k, t)[i] = b[i]
<1>1. Len(t) \in Nat /\ \A j \in 1..Len(t) : t[j] \in Cells
  OBVIOUS
<1>2. \A i \in 0..m-1 : i \in k..k+Len(t)-1 <=> i >= k /\ i < k + Len(t)
  BY <1>1
<1>3. \A i \in 0..m-1 : i \in k..k+Len(t)-1 => i-k+1 \in 1..Len(t)
  BY <1>1
<1>4. Copied(b, k, t) = [i \in 0..m-1 |-> IF i \in k..k+Len(t)-1 THEN t[i-k+1] ELSE b[i]]
  BY DEF Copied
<1> QED BY <1>1, <1>2, <1>3, <1>4

LEMMA ClearedTyped ==
  ASSUME NEW m \in Nat, NEW b \in [0..m-1 -> Cells], NEW i \in Int, NEW j \in Int
  PROVE  /\ Cleared(b, i, j) \in [0..m-1 -> Cells]
         /\ \A k \in 0..m-1 : Cleared(b, i, j)[k] = IF i <= k /\ k < j THEN NUL ELSE b[k]
<1>1. NUL \in Cells BY BytesAssumption DEF Cells
<1> QED BY <1>1 DEF Cleared

\* An LBS is a record of five fields that can be given one by one.
LEMMA Assembled ==
  ASSUME NEW p \in Int, NEW s \in Int, NEW a \in Nat, NEW u \in BOOLEAN,
         NEW b \in [0..a-1 -> Cells], a <= Limit,
         u => 0 <= p /\ p <= s /\ s <= a,
         NEW l, l = [ptr |-> p, size |-> s, asize |-> a, body |-> b, up |-> u]
  PROVE  Sound(l)
BY DEF Sound

LEMMA Disassembled ==
  ASSUME NEW l, Sound(l)
  PROVE  /\ l.ptr \in Int /\ l.size \in Int /\ l.asize \in Nat /\ l.up \in BOOLEAN
         /\ l.body \in [0..l.asize-1 -> Cells]
         /\ l = [ptr |-> l.ptr, size |-> l.size, asize |-> l.asize, body |-> l.body, up |-> l.up]
         /\ l.asize <= Limit
         /\ l.up => 0 <= l.ptr /\ l.ptr <= l.size /\ l.size <= l.asize
BY DEF Sound

\* g is l with room for n bytes, or the process has ended.
Extends(g, l, n) ==
  /\ Sound(g)
  /\ g.ptr = l.ptr /\ g.size = l.size /\ g.asize >= l.asize
  /\ g.up => l.up /\ g.asize >= n

Keeps(g, l) == \A i \in 0..l.asize-1 : g.body[i] = l.body[i]

Zeroed(g) == \A i \in 0..g.asize-1 : g.body[i] = NUL

\* LBS_Grown provides what it was asked for or the process ends; it never
\* shrinks, and keeps the old bytes, or clears all if it is not told to.
LEMMA GrownSound ==
  ASSUME NEW l, Sound(l), NEW n \in Int, NEW fKeep \in BOOLEAN,
         NEW g, g = Grown(l, n, fKeep)
  PROVE  Extends(g, l, n) /\ (Keeps(g, l) \/ (~fKeep /\ Zeroed(g)))
<1> USE DEF Extends, Keeps, Zeroed
<1>0. Limit \in Nat /\ NUL \in Cells /\ Junk \in Cells
  BY SizeAssumption, BytesAssumption DEF Cells
<1>l. /\ l.ptr \in Int /\ l.size \in Int /\ l.asize \in Nat /\ l.up \in BOOLEAN
      /\ l.body \in [0..l.asize-1 -> Cells]
      /\ l = [ptr |-> l.ptr, size |-> l.size, asize |-> l.asize, body |-> l.body, up |-> l.up]
      /\ l.asize <= Limit
      /\ l.up => 0 <= l.ptr /\ l.ptr <= l.size /\ l.size <= l.asize
  BY Disassembled
<1>1. CASE l.asize >= n
  BY <1>1, <1>l DEF Grown
<1>2. CASE ~(l.asize >= n) /\ n > Limit
  <2>1. g = [ptr |-> l.ptr, size |-> l.size, asize |-> l.asize, body |-> l.body, up |-> FALSE]
    BY <1>2, <1>l DEF Grown
  <2>2. Sound(g)
    BY <2>1, <1>l, Assembled
  <2> QED BY <2>1, <2>2, <1>l
<1>3. CASE ~(l.asize >= n) /\ ~(n > Limit)
  <2> DEFINE b == IF fKeep THEN Resized(l.body, n, Junk) ELSE [i \in 0..n-1 |-> NUL]
  <2>1. g = [l EXCEPT !.asize = n, !.body = b]
    BY <1>3 DEF Grown
  <2>2. n \in Nat /\ n > l.asize
    BY <1>3, <1>l
  <2>3. /\ b \in [0..n-1 -> Cells]
        /\ fKeep => \A i \in 0..l.asize-1 : b[i] = l.body[i]
        /\ ~fKeep => \A i \in 0..n-1 : b[i] = NUL
    <3>1. CASE fKeep
      <4>1. /\ b \in [0..n-1 -> Cells]
            /\ \A i \in 0..n-1 : i < l.asize => b[i] = l.body[i]
        BY <3>1, <2>2, <1>0, <1>l, ResizedTyped
      <4> HIDE DEF b
      <4> QED BY <3>1, <4>1, <2>2, <1>l
    <3>2. CASE ~fKeep
      BY <3>2, <1>0
    <3> QED BY <3>1, <3>2
  <2> HIDE DEF b
  <2>4. g = [ptr |-> l.ptr, size |-> l.size, asize |-> n, body |-> b, up |-> l.up]
    BY <2>1, <1>l
  <2>5. n <= Limit /\ (l.up => 0 <= l.ptr /\ l.ptr <= l.size /\ l.size <= n)
    BY <2>2, <1>3, <1>0, <1>l
  <2>6. Sound(g)
    BY <2>2, <2>3, <2>4, <2>5, <1>l, Assembled
  <2> QED BY <2>6, <2>2, <2>3, <2>4, <1>l
<1> QED BY <1>1, <1>2, <1>3, <1>l


LEMMA GrownKeeps ==
  ASSUME NEW l, Sound(l), NEW n \in Int, NEW g, g = Grown(l, n, TRUE)
  PROVE  Extends(g, l, n) /\ Keeps(g, l)
<1>1. PICK f \in BOOLEAN : f = TRUE
  OBVIOUS
<1>2. g = Grown(l, n, f)
  BY <1>1, Zenon
<1>3. Extends(g, l, n) /\ (Keeps(g, l) \/ (~f /\ Zeroed(g)))
  BY <1>2, GrownSound
<1> QED BY <1>1, <1>3, Zenon

\* The size and the cursor set to the end of n bytes.
Ended(g, n) == [g EXCEPT !.size = n, !.ptr = n]

LEMMA EndedSound ==
  ASSUME NEW g, Sound(g), NEW n \in Nat, g.up => g.asize >= n,
         NEW r, r = Ended(g, n)
  PROVE  /\ Sound(r) /\ r.ptr = n /\ r.size = n
         /\ r.asize = g.asize /\ r.body = g.body /\ r.up = g.up
<1>1. /\ g.asize \in Nat /\ g.up \in BOOLEAN /\ g.body \in [0..g.asize-1 -> Cells]
      /\ g = [ptr |-> g.ptr, size |-> g.size, asize |-> g.asize, body |-> g.body, up |-> g.up]
      /\ g.asize <= Limit
  BY Disassembled
<1>2. r = [ptr |-> n, size |-> n, asize |-> g.asize, body |-> g.body, up |-> g.up]
  BY <1>1 DEF Ended
<1>3. Sound(r)
  <2>1. n \in Int /\ (g.up => 0 <= n /\ n <= n /\ n <= g.asize)
    BY <1>1
  <2> QED BY <2>1, <1>1, <1>2, Assembled
<1> QED BY <1>2, <1>3

\* r has n bytes in use, the cursor behind them, or the process has ended.
Reserved(r, l, n) ==
  /\ Sound(r)
  /\ r.ptr = n /\ r.size = n
  /\ r.up => l.up /\ r.asize >= n

\* LBS_ReserveSize keeps the old bytes, or clears all if it is not told to.
LEMMA ReserveSound ==
  ASSUME NEW l, Sound(l), NEW n \in Nat, NEW fKeep \in BOOLEAN,
         NEW r, r = ReserveSize(l, n, fKeep)
  PROVE  Reserved(r, l, n) /\ (Keeps(r, l) \/ (~fKeep /\ Zeroed(r)))
<1> DEFINE g == Grown(l, n, fKeep)
<1>1. /\ Sound(g) /\ (g.up => l.up /\ g.asize >= n)
      /\ Keeps(g, l) \/ (~fKeep /\ Zeroed(g))
  BY GrownSound DEF Extends
<1>2. r = Ended(g, n)
  BY DEF ReserveSize, Ended
<1> HIDE DEF g
<1>3. /\ Sound(r) /\ r.ptr = n /\ r.size = n
      /\ r.asize = g.asize /\ r.body = g.body /\ r.up = g.up
  BY <1>1, <1>2, EndedSound
<1> QED BY <1>1, <1>3 DEF Keeps, Zeroed, Reserved

\* The same, for the value of fKeep that the callers write.
LEMMA ReserveKeeps ==
  ASSUME NEW l, Sound(l), NEW n \in Nat, NEW r, r = ReserveSize(l, n, TRUE)
  PROVE  Reserved(r, l, n) /\ Keeps(r, l)
<1>1. PICK f \in BOOLEAN : f = TRUE
  OBVIOUS
<1>2. r = ReserveSize(l, n, f)
  BY <1>1, Zenon
<1>3. Reserved(r, l, n) /\ (Keeps(r, l) \/ (~f /\ Zeroed(r)))
  BY <1>2, ReserveSound
<1> QED BY <1>1, <1>3, Zenon

LEMMA GrownClears ==
  ASSUME NEW l, Sound(l), NEW n \in Int, NEW g, g = Grown(l, n, FALSE)
  PROVE  Extends(g, l, n)
<1>1. PICK f \in BOOLEAN : f = FALSE
  OBVIOUS
<1>2. g = Grown(l, n, f)
  BY <1>1, Zenon
<1> QED BY <1>2, GrownSound

-----------------------------------------------------------------------------
(* Writing *)

LEMMA StartSound ==
  ASSUME NEW l, Sound(l), NEW r, r = EmitStart(l)
  PROVE  Sound(r) /\ Written(r) /\ (r.up => l.up) /\ r.ptr = 0 /\ r.size = 0
<1>l. /\ l.ptr \in Int /\ l.size \in Int /\ l.asize \in Nat /\ l.up \in BOOLEAN
      /\ l.body \in [0..l.asize-1 -> Cells]
      /\ l = [ptr |-> l.ptr, size |-> l.size, asize |-> l.asize, body |-> l.body, up |-> l.up]
      /\ l.asize <= Limit
      /\ l.up => 0 <= l.ptr /\ l.ptr <= l.size /\ l.size <= l.asize
  BY Disassembled
<1> DEFINE b == Cleared(l.body, 0, l.asize)
<1>m. l.asize \in Nat /\ l.body \in [0..l.asize-1 -> Cells] /\ 0 \in Int /\ l.asize \in Int
  BY <1>l
<1>1. b \in [0..l.asize-1 -> Cells]
  BY <1>m, ClearedTyped, Zenon
<1>2. r = [l EXCEPT !.ptr = 0, !.size = 0, !.body = b]
  BY DEF EmitStart
<1> HIDE DEF b
<1>3. r = [ptr |-> 0, size |-> 0, asize |-> l.asize, body |-> b, up |-> l.up]
  BY <1>l, <1>2
<1>4. Sound(r)
  BY <1>l, <1>1, <1>3, Assembled
<1> QED BY <1>3, <1>4 DEF Written

\* One byte is where the cursor was, and the others are where they were.
Emitted(l, c, r) ==
  /\ r.ptr = l.ptr + 1 /\ r.size = SizeAfter(l)
  /\ r.body[l.ptr] = c
  /\ \A i \in 0..l.size-1 : i # l.ptr => r.body[i] = l.body[i]

\* LBS_Emit, from one end of the buffer to the other: where it does not grow,
\* the cursor is before the last byte.
LEMMA EmitSound ==
  ASSUME NEW l, Sound(l), NEW c \in Bytes, NEW r, r = Emit(l, c)
  PROVE  /\ Sound(r)
         /\ r.up => l.up
         /\ Written(l) => Written(r)
         /\ r.up => Emitted(l, c, r)
<1>0. c \in Cells /\ c # Junk /\ Grow \in Nat \ {0}
  BY BytesAssumption, SizeAssumption DEF Cells
<1>l. /\ l.ptr \in Int /\ l.size \in Int /\ l.asize \in Nat /\ l.up \in BOOLEAN
      /\ l.body \in [0..l.asize-1 -> Cells]
      /\ l = [ptr |-> l.ptr, size |-> l.size, asize |-> l.asize, body |-> l.body, up |-> l.up]
      /\ l.asize <= Limit
      /\ l.up => 0 <= l.ptr /\ l.ptr <= l.size /\ l.size <= l.asize
  BY Disassembled
<1> DEFINE g == IF l.ptr = l.asize THEN Grown(l, l.asize + Grow, TRUE) ELSE l
           b == Copied(g.body, l.ptr, <<c>>)
<1>1. /\ Sound(g)
      /\ g.up => l.up /\ l.ptr < g.asize
      /\ g.asize >= l.asize
      /\ \A i \in 0..l.asize-1 : g.body[i] = l.body[i]
  <2>1. CASE l.ptr = l.asize
    <3>1. g = Grown(l, l.asize + Grow, TRUE)
      BY <2>1
    <3>2. l.asize + Grow \in Int
      BY <1>0, <1>l
    <3> HIDE DEF g
    <3>3. /\ Sound(g) /\ g.asize >= l.asize
          /\ g.up => l.up /\ g.asize >= l.asize + Grow
          /\ \A i \in 0..l.asize-1 : g.body[i] = l.body[i]
      <4>1. Extends(g, l, l.asize + Grow) /\ Keeps(g, l)
        BY <3>1, <3>2, GrownKeeps, Zenon
      <4> QED BY <4>1 DEF Extends, Keeps
    <3>4. g.asize \in Nat
      BY <3>3, Disassembled
    <3> QED BY <3>3, <3>4, <2>1, <1>0, <1>l
  <2>2. CASE l.ptr # l.asize
    BY <2>2, <1>l
  <2> QED BY <2>1, <2>2
<1>2. r = [g EXCEPT !.body = b, !.ptr = l.ptr + 1, !.size = SizeAfter(l)]
  BY DEF Emit
<1>b. <<c>> \in Seq(Cells) /\ Len(<<c>>) = 1 /\ <<c>>[1] = c
  BY <1>0
<1> HIDE DEF g
<1>g. /\ g.ptr \in Int /\ g.size \in Int /\ g.asize \in Nat /\ g.up \in BOOLEAN
      /\ g.body \in [0..g.asize-1 -> Cells]
      /\ g = [ptr |-> g.ptr, size |-> g.size, asize |-> g.asize, body |-> g.body, up |-> g.up]
      /\ g.asize <= Limit
      /\ g.up => 0 <= g.ptr /\ g.ptr <= g.size /\ g.size <= g.asize
  BY <1>1, Disassembled
<1>3. /\ b \in [0..g.asize-1 -> Cells]
      /\ \A i \in 0..g.asize-1 : i = l.ptr => b[i] = c
      /\ \A i \in 0..g.asize-1 : i # l.ptr => b[i] = g.body[i]
  <2>1. /\ b \in [0..g.asize-1 -> Cells]
        /\ \A i \in 0..g.asize-1 : i >= l.ptr /\ i < l.ptr + 1 => b[i] = <<c>>[i-l.ptr+1]
        /\ \A i \in 0..g.asize-1 : ~(i >= l.ptr /\ i < l.ptr + 1) => b[i] = g.body[i]
    <3>1. /\ g.asize \in Nat /\ g.body \in [0..g.asize-1 -> Cells] /\ l.ptr \in Int
          /\ <<c>> \in Seq(Cells)
      BY <1>b, <1>g, <1>l
    <3>2. /\ b \in [0..g.asize-1 -> Cells]
          /\ \A i \in 0..g.asize-1 :
               i >= l.ptr /\ i < l.ptr + Len(<<c>>) => b[i] = <<c>>[i-l.ptr+1]
          /\ \A i \in 0..g.asize-1 : ~(i >= l.ptr /\ i < l.ptr + Len(<<c>>)) => b[i] = g.body[i]
      BY <3>1, CopiedTyped, Zenon
    <3> QED BY <3>2, <1>b
  <2> HIDE DEF b
  <2>2. \A i \in 0..g.asize-1 : i = l.ptr <=> i >= l.ptr /\ i < l.ptr + 1
    BY <1>l
  <2>3. \A i \in 0..g.asize-1 : i = l.ptr => b[i] = <<c>>[1]
    BY <2>1, <2>2, <1>l
  <2> QED BY <2>1, <2>2, <2>3, <1>b
<1> HIDE DEF b
<1>4. r = [ptr |-> l.ptr + 1, size |-> SizeAfter(l), asize |-> g.asize, body |-> b, up |-> g.up]
  BY <1>2, <1>g
<1>5. /\ SizeAfter(l) \in Int
      /\ g.up => 0 <= l.ptr + 1 /\ l.ptr + 1 <= SizeAfter(l) /\ SizeAfter(l) <= g.asize
  BY <1>1, <1>g, <1>l DEF SizeAfter
<1>6. Sound(r)
  <2>1. l.ptr + 1 \in Int /\ g.asize \in Nat /\ g.up \in BOOLEAN /\ g.asize <= Limit
    BY <1>l, <1>g
  <2> QED BY <2>1, <1>3, <1>4, <1>5, Assembled
<1>7. ASSUME Written(l), g.up, NEW i \in 0..SizeAfter(l)-1
      PROVE  b[i] # Junk
  <2>1. i \in 0..g.asize-1
    BY <1>7, <1>5, <1>g
  <2>2. CASE i = l.ptr
    BY <2>1, <2>2, <1>3, <1>0
  <2>3. CASE i # l.ptr
    <3>1. i \in 0..l.size-1 /\ i \in 0..l.asize-1
      BY <1>7, <2>1, <2>3, <1>1, <1>l DEF SizeAfter
    <3>2. b[i] = l.body[i]
      BY <3>1, <2>1, <2>3, <1>1, <1>3
    <3> QED BY <3>1, <3>2, <1>7, <1>1 DEF Written
  <2> QED BY <2>2, <2>3
<1>8. ASSUME g.up
      PROVE  /\ b[l.ptr] = c
             /\ \A i \in 0..l.size-1 : i # l.ptr => b[i] = l.body[i]
  <2>1. l.ptr \in 0..g.asize-1 /\ l.size <= l.asize /\ l.asize <= g.asize
    BY <1>8, <1>1, <1>g, <1>l
  <2>2. \A i \in 0..l.size-1 : i \in 0..l.asize-1 /\ i \in 0..g.asize-1
    BY <2>1, <1>g, <1>l
  <2> QED BY <2>1, <2>2, <1>1, <1>3
<1> QED BY <1>1, <1>4, <1>6, <1>7, <1>8 DEF Written, Emitted

LEMMA EmitIntSound ==
  ASSUME NEW l, Sound(l), NEW d \in [1..4 -> Bytes], NEW r, r = EmitInt(l, d)
  PROVE  /\ Sound(r)
         /\ r.up => l.up
         /\ Written(l) => Written(r)
         /\ r.up => \E e1, e2, e3 :
              /\ Sound(e1) /\ Sound(e2) /\ Sound(e3) /\ e1.up /\ e2.up /\ e3.up
              /\ Emitted(l, d[1], e1) /\ Emitted(e1, d[2], e2)
              /\ Emitted(e2, d[3], e3) /\ Emitted(e3, d[4], r)
<1>0. d[1] \in Bytes /\ d[2] \in Bytes /\ d[3] \in Bytes /\ d[4] \in Bytes
  OBVIOUS
<1> DEFINE e1 == Emit(l, d[1])
           e2 == Emit(e1, d[2])
           e3 == Emit(e2, d[3])
<1>r. r = Emit(e3, d[4])
  BY DEF EmitInt
<1>1. Sound(e1) /\ (e1.up => l.up) /\ (Written(l) => Written(e1)) /\ (e1.up => Emitted(l, d[1], e1))
  BY <1>0, EmitSound
<1> HIDE DEF e1
<1>2. Sound(e2) /\ (e2.up => e1.up) /\ (Written(e1) => Written(e2)) /\ (e2.up => Emitted(e1, d[2], e2))
  BY <1>0, <1>1, EmitSound
<1> HIDE DEF e2
<1>3. Sound(e3) /\ (e3.up => e2.up) /\ (Written(e2) => Written(e3)) /\ (e3.up => Emitted(e2, d[3], e3))
  BY <1>0, <1>2, EmitSound
<1> HIDE DEF e3
<1>4. Sound(r) /\ (r.up => e3.up) /\ (Written(e3) => Written(r)) /\ (r.up => Emitted(e3, d[4], r))
  BY <1>0, <1>r, <1>3, EmitSound
<1> QED BY <1>1, <1>2, <1>3, <1>4

\* The same bytes with the same cursor.
Shows(g, l) ==
  g.ptr = l.ptr /\ g.size = l.size /\ \A i \in 0..l.size-1 : g.body[i] = l.body[i]

\* LBS_EmitEnd grows for the terminator before it writes it.
LEMMA EmitEndSound ==
  ASSUME NEW l, Sound(l), NEW last, NEW r, r = EmitEnd(l, last)
  PROVE  /\ Sound(r)
         /\ r.up => l.up
         /\ Written(l) => Written(r)
         /\ (l.ptr = 0 \/ last # NUL) /\ r.up =>
              \E g : Sound(g) /\ g.up /\ Shows(g, l) /\ Emitted(g, NUL, r)
         /\ ~(l.ptr = 0 \/ last # NUL) => r = l
<1>0. NUL \in Bytes
  BY BytesAssumption
<1>l. /\ l.ptr \in Int /\ l.size \in Int /\ l.asize \in Nat /\ l.up \in BOOLEAN
      /\ l.body \in [0..l.asize-1 -> Cells]
      /\ l = [ptr |-> l.ptr, size |-> l.size, asize |-> l.asize, body |-> l.body, up |-> l.up]
      /\ l.asize <= Limit
      /\ l.up => 0 <= l.ptr /\ l.ptr <= l.size /\ l.size <= l.asize
  BY Disassembled
<1>1. CASE l.ptr = 0 \/ last # NUL
  <2> DEFINE g == Grown(l, l.size + 1, TRUE)
  <2>r. r = Emit(g, NUL)
    BY <1>1 DEF EmitEnd
  <2>0. l.size + 1 \in Int
    BY <1>l
  <2>1. /\ Sound(g) /\ g.size = l.size /\ g.ptr = l.ptr
        /\ g.up => l.up
        /\ \A i \in 0..l.asize-1 : g.body[i] = l.body[i]
    <3>1. Extends(g, l, l.size + 1) /\ Keeps(g, l)
      BY <2>0, GrownKeeps, Zenon
    <3> HIDE DEF g
    <3> QED BY <3>1 DEF Extends, Keeps
  <2> HIDE DEF g
  <2>2. Written(l) => Written(g)
    BY <2>1, <1>l DEF Written
  <2>3. /\ Sound(r) /\ (r.up => g.up) /\ (Written(g) => Written(r))
        /\ r.up => Emitted(g, NUL, r)
    BY <2>1, <2>r, <1>0, EmitSound
  <2>4. g.up => Shows(g, l)
    BY <2>1, <1>l DEF Shows
  <2> QED BY <1>1, <2>1, <2>2, <2>3, <2>4
<1>2. CASE ~(l.ptr = 0 \/ last # NUL)
  BY <1>2 DEF EmitEnd
<1> QED BY <1>1, <1>2

\* The bytes before the cursor are cleared, and taken out of the length.
Trimmed(l, n, r) ==
  /\ r.ptr = l.ptr - n /\ r.size = l.size - n
  /\ \A i \in 0..l.size-n-1 :
       r.body[i] = IF l.ptr - n <= i /\ i < l.ptr THEN NUL ELSE l.body[i]

LEMMA TrimSound ==
  ASSUME NEW l, Sound(l), NEW n \in Nat, NEW r, r = Trim(l, n)
  PROVE  /\ Sound(r)
         /\ r.up => l.up
         /\ Written(l) => Written(r)
         /\ l.up /\ l.ptr >= n => Trimmed(l, n, r)
         /\ ~(l.ptr >= n) => r = l
<1>0. NUL # Junk
  BY BytesAssumption
<1>l. /\ l.ptr \in Int /\ l.size \in Int /\ l.asize \in Nat /\ l.up \in BOOLEAN
      /\ l.body \in [0..l.asize-1 -> Cells]
      /\ l = [ptr |-> l.ptr, size |-> l.size, asize |-> l.asize, body |-> l.body, up |-> l.up]
      /\ l.asize <= Limit
      /\ l.up => 0 <= l.ptr /\ l.ptr <= l.size /\ l.size <= l.asize
  BY Disassembled
<1> DEFINE b == Cleared(l.body, l.ptr - n, l.ptr)
<1>1. /\ b \in [0..l.asize-1 -> Cells]
      /\ \A k \in 0..l.asize-1 : b[k] = NUL \/ b[k] = l.body[k]
      /\ \A k \in 0..l.asize-1 :
           b[k] = IF l.ptr - n <= k /\ k < l.ptr THEN NUL ELSE l.body[k]
  <2>1. /\ l.asize \in Nat /\ l.body \in [0..l.asize-1 -> Cells]
        /\ l.ptr - n \in Int /\ l.ptr \in Int
    BY <1>l
  <2>2. /\ b \in [0..l.asize-1 -> Cells]
        /\ \A k \in 0..l.asize-1 :
             b[k] = IF l.ptr - n <= k /\ k < l.ptr THEN NUL ELSE l.body[k]
    BY <2>1, ClearedTyped, Zenon
  <2> HIDE DEF b
  <2> QED BY <2>2
<1>2. CASE l.ptr >= n
  <2>1. r = [l EXCEPT !.body = b, !.ptr = l.ptr - n, !.size = l.size - n]
    BY <1>2 DEF Trim, MayTrim
  <2> HIDE DEF b
  <2>2. r = [ptr |-> l.ptr - n, size |-> l.size - n, asize |-> l.asize, body |-> b, up |-> l.up]
    BY <2>1, <1>l
  <2>3. Sound(r)
    <3>1. /\ l.ptr - n \in Int /\ l.size - n \in Int /\ l.asize \in Nat
          /\ l.up \in BOOLEAN /\ l.asize <= Limit
          /\ l.up => 0 <= l.ptr - n /\ l.ptr - n <= l.size - n /\ l.size - n <= l.asize
      BY <1>2, <1>l
    <3> QED BY <3>1, <2>2, <1>1, Assembled
  <2>4. ASSUME Written(l), l.up, NEW i \in 0..l.size-n-1
        PROVE  b[i] # Junk
    <3>1. i \in 0..l.size-1 /\ i \in 0..l.asize-1
      BY <2>4, <1>l
    <3> QED BY <3>1, <2>4, <1>0, <1>1 DEF Written
  <2>5. ASSUME l.up, NEW i \in 0..l.size-n-1
        PROVE  b[i] = IF l.ptr - n <= i /\ i < l.ptr THEN NUL ELSE l.body[i]
    <3>1. i \in 0..l.asize-1
      BY <2>5, <1>l
    <3> QED BY <3>1, <1>1
  <2> QED BY <1>2, <2>2, <2>3, <2>4, <2>5 DEF Written, Trimmed
<1>3. CASE ~(l.ptr >= n)
  BY <1>3 DEF Trim, MayTrim
<1> QED BY <1>2, <1>3

\* Rounding up to the growth unit always provides enough.
LEMMA RoundedUp ==
  ASSUME NEW x \in Nat
  PROVE  (x \div Grow + 1) * Grow \in Nat /\ (x \div Grow + 1) * Grow > x
<1>0. Grow \in Nat /\ Grow > 0
  BY SizeAssumption
<1> DEFINE q == x \div Grow
<1>1. q \in Nat /\ x = Grow * q + (x % Grow) /\ x % Grow \in 0..Grow-1
  BY <1>0
<1> HIDE DEF q
<1>2. (q + 1) * Grow = Grow * q + Grow
  BY <1>0, <1>1
<1>3. Grow * q \in Nat
  BY <1>0, <1>1
<1> QED BY <1>0, <1>1, <1>2, <1>3

\* t written at offset k of a buffer that has room for it.
LEMMA CopiedWritten ==
  ASSUME NEW m \in Nat, NEW b \in [0..m-1 -> Cells], NEW k \in Nat, NEW t \in Seq(Bytes),
         k + Len(t) <= m,
         \A i \in 0..k-1 : b[i] # Junk
  PROVE  \A i \in 0..k+Len(t)-1 : Copied(b, k, t)[i] # Junk
<1>1. Len(t) \in Nat /\ t \in Seq(Cells) /\ \A j \in 1..Len(t) : t[j] # Junk
  BY BytesAssumption DEF Cells
<1>2. /\ \A i \in 0..m-1 : i >= k /\ i < k + Len(t) => Copied(b, k, t)[i] = t[i-k+1]
      /\ \A i \in 0..m-1 : ~(i >= k /\ i < k + Len(t)) => Copied(b, k, t)[i] = b[i]
  <2>1. k \in Int /\ t \in Seq(Cells)
    BY <1>1
  <2> QED BY <2>1, CopiedTyped
<1>3. SUFFICES ASSUME NEW i \in 0..k+Len(t)-1
               PROVE  Copied(b, k, t)[i] # Junk
  OBVIOUS
<1>4. i \in 0..m-1
  BY <1>1, <1>3
<1>5. CASE i >= k
  <2>1. i - k + 1 \in 1..Len(t)
    BY <1>1, <1>3, <1>5
  <2>2. i < k + Len(t)
    BY <1>1, <1>3
  <2>3. Copied(b, k, t)[i] = t[i-k+1]
    BY <2>2, <1>2, <1>4, <1>5
  <2> QED BY <2>1, <2>3, <1>1
<1>6. CASE ~(i >= k)
  <2>1. i \in 0..k-1
    BY <1>3, <1>6
  <2>2. Copied(b, k, t)[i] = b[i]
    BY <1>2, <1>4, <1>6
  <2> QED BY <2>1, <2>2
<1> QED BY <1>5, <1>6

\* t is where the cursor was, and nothing follows it.
Appended(l, t, r) ==
  /\ r.ptr = l.ptr + Len(t) /\ r.size = l.ptr + Len(t)
  /\ \A i \in 0..l.ptr-1 : r.body[i] = l.body[i]
  /\ \A i \in l.ptr..l.ptr+Len(t)-1 : r.body[i] = t[i-l.ptr+1]

\* LBS_EmitString grows by whole units until the string fits.
LEMMA EmitStringSound ==
  ASSUME NEW l, Sound(l), NEW t \in Seq(Bytes), NEW r, r = EmitString(l, t)
  PROVE  /\ Sound(r)
         /\ r.up => l.up
         /\ Written(l) => Written(r)
         /\ r.up => Appended(l, t, r)
<1>0. Len(t) \in Nat /\ t \in Seq(Cells)
  BY DEF Cells
<1>l. /\ l.ptr \in Int /\ l.size \in Int /\ l.asize \in Nat /\ l.up \in BOOLEAN
      /\ l.body \in [0..l.asize-1 -> Cells]
      /\ l = [ptr |-> l.ptr, size |-> l.size, asize |-> l.asize, body |-> l.body, up |-> l.up]
      /\ l.asize <= Limit
      /\ l.up => 0 <= l.ptr /\ l.ptr <= l.size /\ l.size <= l.asize
  BY Disassembled
<1> DEFINE left == l.asize - l.ptr
           n == l.asize + ((Len(t) - left) \div Grow + 1) * Grow
           g == IF left < Len(t) THEN Grown(l, n, TRUE) ELSE l
           b == Copied(g.body, l.ptr, t)
<1>1. /\ Sound(g) /\ g.asize >= l.asize
      /\ g.up => l.up /\ l.ptr + Len(t) <= g.asize
      /\ Keeps(g, l)
  <2>1. CASE left < Len(t)
    <3>1. g = Grown(l, n, TRUE)
      BY <2>1
    <3>2. Len(t) - left \in Nat
      BY <2>1, <1>0, <1>l
    <3>3. n \in Int /\ n > l.asize + (Len(t) - left)
      <4> DEFINE x == Len(t) - left
      <4>1. (x \div Grow + 1) * Grow \in Nat /\ (x \div Grow + 1) * Grow > x
        BY <3>2, RoundedUp
      <4>2. n = l.asize + (x \div Grow + 1) * Grow
        OBVIOUS
      <4> HIDE DEF x, n
      <4> QED BY <4>1, <4>2, <3>2, <1>l DEF x
    <3> HIDE DEF g, n
    <3>4. Extends(g, l, n) /\ Keeps(g, l)
      BY <3>1, <3>3, GrownKeeps, Zenon
    <3>5. g.asize \in Nat
      BY <3>4, Disassembled DEF Extends
    <3> QED BY <3>3, <3>4, <3>5, <1>0, <1>l DEF Extends
  <2>2. CASE ~(left < Len(t))
    <3>1. g = l
      BY <2>2
    <3> HIDE DEF g
    <3> QED BY <3>1, <2>2, <1>0, <1>l DEF Keeps
  <2> QED BY <2>1, <2>2
<1>2. r = [g EXCEPT !.body = b, !.ptr = l.ptr + Len(t), !.size = l.ptr + Len(t)]
  BY DEF EmitString
<1> HIDE DEF g
<1>g. /\ g.ptr \in Int /\ g.size \in Int /\ g.asize \in Nat /\ g.up \in BOOLEAN
      /\ g.body \in [0..g.asize-1 -> Cells]
      /\ g = [ptr |-> g.ptr, size |-> g.size, asize |-> g.asize, body |-> g.body, up |-> g.up]
      /\ g.asize <= Limit
      /\ g.up => 0 <= g.ptr /\ g.ptr <= g.size /\ g.size <= g.asize
  BY <1>1, Disassembled
<1>3. /\ b \in [0..g.asize-1 -> Cells]
      /\ \A i \in 0..g.asize-1 : i >= l.ptr /\ i < l.ptr + Len(t) => b[i] = t[i-l.ptr+1]
      /\ \A i \in 0..g.asize-1 : ~(i >= l.ptr /\ i < l.ptr + Len(t)) => b[i] = g.body[i]
  <2>1. /\ g.asize \in Nat /\ g.body \in [0..g.asize-1 -> Cells] /\ l.ptr \in Int
    BY <1>g, <1>l
  <2> QED BY <2>1, <1>0, CopiedTyped, Zenon
<1>4. ASSUME Written(l), g.up
      PROVE  \A i \in 0..l.ptr+Len(t)-1 : b[i] # Junk
  <2>1. /\ g.asize \in Nat /\ g.body \in [0..g.asize-1 -> Cells] /\ l.ptr \in Nat
        /\ l.ptr + Len(t) <= g.asize
    BY <1>g, <1>l, <1>1, <1>4
  <2>2. \A i \in 0..l.ptr-1 : i \in 0..l.size-1 /\ i \in 0..l.asize-1
    BY <1>l, <1>1, <1>4
  <2>3. \A i \in 0..l.ptr-1 : g.body[i] # Junk
    BY <2>2, <1>1, <1>4 DEF Written, Keeps
  <2> QED BY <2>1, <2>3, CopiedWritten, Zenon
<1> HIDE DEF b
<1>5. r = [ptr |-> l.ptr + Len(t), size |-> l.ptr + Len(t), asize |-> g.asize,
           body |-> b, up |-> g.up]
  BY <1>2, <1>g
<1>6. Sound(r)
  <2>1. /\ l.ptr + Len(t) \in Int /\ g.asize \in Nat /\ g.up \in BOOLEAN /\ g.asize <= Limit
        /\ g.up => 0 <= l.ptr + Len(t) /\ l.ptr + Len(t) <= g.asize
    BY <1>0, <1>1, <1>l, <1>g
  <2> QED BY <2>1, <1>3, <1>5, Assembled
<1>7. r.size = l.ptr + Len(t) /\ r.body = b /\ r.up = g.up
  BY <1>5
<1>8. r.up => l.up
  BY <1>1, <1>7
<1>9. ASSUME Written(l) PROVE Written(r)
  <2>1. r.up => \A i \in 0..l.ptr+Len(t)-1 : b[i] # Junk
    BY <1>4, <1>7, <1>9
  <2> DEFINE m == l.ptr + Len(t)
  <2>2. r.up => \A i \in 0..m-1 : b[i] # Junk
    BY <2>1, <1>0, <1>l
  <2> HIDE DEF m
  <2>3. r.size = m
    BY <1>7 DEF m
  <2> QED BY <2>2, <2>3, <1>7, Zenon DEF Written
<1>10. ASSUME r.up PROVE Appended(l, t, r)
  <2>1. /\ l.ptr \in Nat /\ l.ptr + Len(t) <= g.asize /\ l.ptr <= l.asize
        /\ l.asize <= g.asize /\ g.asize \in Nat
    BY <1>10, <1>7, <1>0, <1>1, <1>l, <1>g
  <2>2. \A i \in 0..l.ptr-1 : b[i] = l.body[i]
    <3>1. \A i \in 0..l.ptr-1 : /\ i \in 0..g.asize-1 /\ i \in 0..l.asize-1
                                /\ ~(i >= l.ptr /\ i < l.ptr + Len(t))
      BY <2>1, <1>0, <1>l
    <3>2. \A i \in 0..l.ptr-1 : b[i] = g.body[i]
      BY <3>1, <1>3
    <3> QED BY <3>1, <3>2, <1>1 DEF Keeps
  <2>3. \A i \in l.ptr..l.ptr+Len(t)-1 : b[i] = t[i-l.ptr+1]
    <3>1. \A i \in l.ptr..l.ptr+Len(t)-1 : i \in 0..g.asize-1 /\ i >= l.ptr /\ i < l.ptr + Len(t)
      BY <2>1, <1>0
    <3> QED BY <3>1, <1>3
  <2> QED BY <2>2, <2>3, <1>5, <1>7 DEF Appended
<1> QED BY <1>6, <1>8, <1>9, <1>10

LEMMA StringSound ==
  ASSUME NEW l, Sound(l), NEW t \in Seq(Bytes), NEW r, r = String(l, t)
  PROVE  /\ Sound(r) /\ (r.up => l.up) /\ Written(r)
         /\ r.up => \E e, f, g :
              /\ Sound(e) /\ Sound(f) /\ Sound(g) /\ e.up /\ f.up /\ g.up
              /\ e.ptr = 0 /\ e.size = 0
              /\ Appended(e, t, f) /\ Shows(g, f) /\ Emitted(g, NUL, r)
<1>t. Top # NUL
  BY BytesAssumption
<1> DEFINE e == EmitStart(l)
           f == EmitString(e, t)
<1>1. Sound(e) /\ Written(e) /\ (e.up => l.up) /\ e.ptr = 0 /\ e.size = 0
  BY StartSound
<1> HIDE DEF e
<1>2. Sound(f) /\ (f.up => e.up) /\ (Written(e) => Written(f)) /\ (f.up => Appended(e, t, f))
  BY <1>1, EmitStringSound
<1>3. r = EmitEnd(f, Top)
  BY DEF String, e
<1> HIDE DEF f
<1>4. /\ Sound(r) /\ (r.up => f.up) /\ (Written(f) => Written(r))
      /\ r.up => \E g : Sound(g) /\ g.up /\ Shows(g, f) /\ Emitted(g, NUL, r)
  BY <1>2, <1>3, <1>t, EmitEndSound
<1> QED BY <1>1, <1>2, <1>4

\* The LBS holds t and nothing else.
Filled(t, r) ==
  r.ptr = Len(t) /\ r.size = Len(t) /\ \A i \in 0..Len(t)-1 : r.body[i] = t[i+1]

\* t copied to the beginning of a buffer that has room for it.
LEMMA CopiedFirst ==
  ASSUME NEW m \in Nat, NEW b \in [0..m-1 -> Cells], NEW t \in Seq(Cells), Len(t) <= m
  PROVE  \A i \in 0..Len(t)-1 : Copied(b, 0, t)[i] = t[i+1]
<1>1. /\ Len(t) \in Nat
      /\ \A i \in 0..m-1 : i >= 0 /\ i < 0 + Len(t) => Copied(b, 0, t)[i] = t[i-0+1]
  BY CopiedTyped
<1>2. SUFFICES ASSUME NEW i \in 0..Len(t)-1 PROVE Copied(b, 0, t)[i] = t[i+1]
  OBVIOUS
<1>3. i \in 0..m-1 /\ i >= 0 /\ i < 0 + Len(t) /\ i - 0 + 1 = i + 1
  BY <1>1, <1>2
<1> QED BY <1>1, <1>3

LEMMA EmitBlockSound ==
  ASSUME NEW l, Sound(l), NEW t \in Seq(Bytes), NEW r, r = EmitBlock(l, t)
  PROVE  Sound(r) /\ (r.up => l.up) /\ Written(r) /\ (r.up => Filled(t, r))
<1>0. Len(t) \in Nat /\ t \in Seq(Cells) /\ Len(t) + 1 \in Int
  BY DEF Cells
<1> DEFINE g == Grown(l, Len(t) + 1, FALSE)
           b == Copied(g.body, 0, t)
<1>1. Extends(g, l, Len(t) + 1)
  BY <1>0, GrownClears, Zenon
<1>2. r = [g EXCEPT !.body = b, !.size = Len(t), !.ptr = Len(t)]
  BY DEF EmitBlock
<1> HIDE DEF g
<1>g. /\ g.ptr \in Int /\ g.size \in Int /\ g.asize \in Nat /\ g.up \in BOOLEAN
      /\ g.body \in [0..g.asize-1 -> Cells]
      /\ g = [ptr |-> g.ptr, size |-> g.size, asize |-> g.asize, body |-> g.body, up |-> g.up]
      /\ g.asize <= Limit
      /\ g.up => 0 <= g.ptr /\ g.ptr <= g.size /\ g.size <= g.asize
  BY <1>1, Disassembled DEF Extends
<1>3. b \in [0..g.asize-1 -> Cells]
  <2>1. g.asize \in Nat /\ g.body \in [0..g.asize-1 -> Cells] /\ 0 \in Int
    BY <1>g
  <2> QED BY <2>1, <1>0, CopiedTyped, Zenon
<1>4. g.up => g.asize >= Len(t) + 1 /\ l.up
  BY <1>1 DEF Extends
<1>e. ASSUME g.up PROVE \A i \in 0..Len(t)-1 : b[i] = t[i+1]
  <2>1. /\ g.asize \in Nat /\ g.body \in [0..g.asize-1 -> Cells] /\ Len(t) <= g.asize
    BY <1>g, <1>4, <1>e, <1>0
  <2> QED BY <2>1, <1>0, CopiedFirst, Zenon
<1>5. ASSUME g.up
      PROVE  \A i \in 0..Len(t)-1 : b[i] # Junk
  <2>1. /\ g.asize \in Nat /\ g.body \in [0..g.asize-1 -> Cells] /\ 0 \in Nat
        /\ 0 + Len(t) <= g.asize /\ 0 + Len(t) = Len(t)
        /\ \A i \in 0..0-1 : g.body[i] # Junk
    BY <1>g, <1>4, <1>5, <1>0
  <2>2. \A i \in 0..0+Len(t)-1 : b[i] # Junk
    BY <2>1, CopiedWritten, Zenon
  <2> QED BY <2>1, <2>2
<1> HIDE DEF b
<1>6. r = [ptr |-> Len(t), size |-> Len(t), asize |-> g.asize, body |-> b, up |-> g.up]
  BY <1>2, <1>g
<1>7. Sound(r)
  <2>1. /\ Len(t) \in Int /\ g.asize \in Nat /\ g.up \in BOOLEAN /\ g.asize <= Limit
        /\ g.up => 0 <= Len(t) /\ Len(t) <= g.asize
    BY <1>0, <1>4, <1>g
  <2> QED BY <2>1, <1>3, <1>6, Assembled
<1>8. r.size = Len(t) /\ r.ptr = Len(t) /\ r.body = b /\ r.up = g.up
  BY <1>6
<1> QED BY <1>4, <1>5, <1>7, <1>8, <1>e DEF Written, Filled

\* A conversion that stores at most twice the bytes it is given leaves room for
\* the terminator.
LEMMA EmitConvertedSound ==
  ASSUME NEW l, Sound(l), NEW n \in Nat, NEW out \in Seq(Bytes), Len(out) <= 2 * n,
         NEW r, r = EmitConverted(l, n, out)
  PROVE  Sound(r) /\ (r.up => l.up) /\ Written(r) /\ (r.up => Filled(Append(out, NUL), r))
<1> DEFINE t == Append(out, NUL)
           m == Len(out) + 1
           g == ReserveSize(l, 2 * n + 1, TRUE)
           b == Copied(g.body, 0, t)
<1>0. t \in Seq(Bytes) /\ Len(t) = m /\ m \in Nat /\ m <= 2 * n + 1 /\ 2 * n + 1 \in Nat
  BY BytesAssumption
<1>c. t \in Seq(Cells)
  BY <1>0 DEF Cells
<1>1. Sound(g) /\ (g.up => l.up /\ g.asize >= 2 * n + 1)
  BY <1>0, ReserveKeeps, Zenon DEF Reserved
<1>2. r = [g EXCEPT !.body = b, !.size = m, !.ptr = m]
  BY DEF EmitConverted, ConvertedSize
<1> HIDE DEF g, t, m
<1>g. /\ g.ptr \in Int /\ g.size \in Int /\ g.asize \in Nat /\ g.up \in BOOLEAN
      /\ g.body \in [0..g.asize-1 -> Cells]
      /\ g = [ptr |-> g.ptr, size |-> g.size, asize |-> g.asize, body |-> g.body, up |-> g.up]
      /\ g.asize <= Limit
      /\ g.up => 0 <= g.ptr /\ g.ptr <= g.size /\ g.size <= g.asize
  BY <1>1, Disassembled
<1>3. b \in [0..g.asize-1 -> Cells]
  <2>1. g.asize \in Nat /\ g.body \in [0..g.asize-1 -> Cells] /\ 0 \in Int
    BY <1>g
  <2> QED BY <2>1, <1>c, CopiedTyped, Zenon
<1>e. ASSUME g.up PROVE \A i \in 0..m-1 : b[i] = t[i+1]
  <2>1. /\ g.asize \in Nat /\ g.body \in [0..g.asize-1 -> Cells] /\ Len(t) <= g.asize
    BY <1>g, <1>1, <1>e, <1>0
  <2>2. \A i \in 0..Len(t)-1 : b[i] = t[i+1]
    BY <2>1, <1>c, CopiedFirst, Zenon
  <2> QED BY <2>2, <1>0
<1>5. ASSUME g.up
      PROVE  \A i \in 0..m-1 : b[i] # Junk
  <2>1. /\ g.asize \in Nat /\ g.body \in [0..g.asize-1 -> Cells] /\ 0 \in Nat
        /\ 0 + Len(t) <= g.asize /\ 0 + Len(t) = m
        /\ \A i \in 0..0-1 : g.body[i] # Junk
    BY <1>g, <1>1, <1>5, <1>0
  <2>2. \A i \in 0..0+Len(t)-1 : b[i] # Junk
    BY <2>1, <1>0, CopiedWritten, Zenon
  <2> QED BY <2>1, <2>2
<1> HIDE DEF b
<1>6. r = [ptr |-> m, size |-> m, asize |-> g.asize, body |-> b, up |-> g.up]
  BY <1>2, <1>g
<1>7. Sound(r)
  <2>1. /\ m \in Int /\ g.asize \in Nat /\ g.up \in BOOLEAN /\ g.asize <= Limit
        /\ g.up => 0 <= m /\ m <= g.asize
    BY <1>0, <1>1, <1>g
  <2> QED BY <2>1, <1>3, <1>6, Assembled
<1>8. r.size = m /\ r.ptr = m /\ r.body = b /\ r.up = g.up
  BY <1>6
<1>9. r.up => Filled(t, r)
  BY <1>0, <1>8, <1>e DEF Filled
<1> QED BY <1>1, <1>5, <1>7, <1>8, <1>9 DEF Written, t

-----------------------------------------------------------------------------
(* The whole contents, and the cursor *)

\* LBS_EmitFix gives back what is not used, and nothing more.
LEMMA EmitFixSound ==
  ASSUME NEW l, Sound(l), l.up, NEW r, r = EmitFix(l)
  PROVE  /\ Sound(r) /\ (Written(l) => Written(r))
         /\ r.up /\ Shows(r, [l EXCEPT !.ptr = 0])
<1>l. /\ l.ptr \in Int /\ l.size \in Int /\ l.asize \in Nat /\ l.up \in BOOLEAN
      /\ l.body \in [0..l.asize-1 -> Cells]
      /\ l = [ptr |-> l.ptr, size |-> l.size, asize |-> l.asize, body |-> l.body, up |-> l.up]
      /\ l.asize <= Limit
      /\ l.up => 0 <= l.ptr /\ l.ptr <= l.size /\ l.size <= l.asize
  BY Disassembled
<1> DEFINE b == Resized(l.body, l.size, Junk)
<1>1. /\ b \in [0..l.size-1 -> Cells]
      /\ \A i \in 0..l.size-1 : i < l.asize => b[i] = l.body[i]
  <2>1. /\ l.asize \in Nat /\ l.size \in Nat /\ l.body \in [0..l.asize-1 -> Cells]
        /\ Junk \in Cells
    BY <1>l DEF Cells
  <2> QED BY <2>1, ResizedTyped, Zenon
<1>2. r = [l EXCEPT !.body = b, !.asize = l.size, !.ptr = 0]
  BY DEF EmitFix, FixedSize
<1> HIDE DEF b
<1>3. r = [ptr |-> 0, size |-> l.size, asize |-> l.size, body |-> b, up |-> l.up]
  BY <1>2, <1>l
<1>4. Sound(r)
  <2>1. l.size \in Nat /\ l.size \in Int /\ 0 \in Int /\ l.size <= Limit /\ l.up \in BOOLEAN
    BY <1>l, SizeAssumption
  <2> QED BY <2>1, <1>1, <1>3 DEF Sound
<1>5. ASSUME Written(l) PROVE \A i \in 0..l.size-1 : b[i] # Junk
  BY <1>5, <1>1, <1>l DEF Written
<1>6. r.size = l.size /\ r.ptr = 0 /\ r.body = b /\ r.up
  BY <1>3
<1>7. \A i \in 0..l.size-1 : b[i] = l.body[i]
  BY <1>1, <1>l
<1>8. PICK m : m = [l EXCEPT !.ptr = 0]
  OBVIOUS
<1>9. m.ptr = 0 /\ m.size = l.size /\ m.body = l.body
  BY <1>8, <1>l
<1>10. Shows(r, m)
  BY <1>6, <1>7, <1>9 DEF Shows
<1> QED BY <1>4, <1>5, <1>6, <1>8, <1>10 DEF Written

LEMMA EmptySound ==
  ASSUME NEW u \in BOOLEAN, NEW e, e = Empty(u)
  PROVE  Sound(e) /\ Written(e) /\ e.up = u
<1> DEFINE b == [i \in {} |-> NUL]
<1>1. b \in [0..0-1 -> Cells]
  OBVIOUS
<1>2. e = [ptr |-> 0, size |-> 0, asize |-> 0, body |-> b, up |-> u]
  BY DEF Empty
<1> HIDE DEF b
<1>4. 0 \in Nat /\ 0 \in Int /\ 0 <= Limit
  BY SizeAssumption
<1>5. Sound(e)
  BY <1>1, <1>2, <1>4 DEF Sound
<1>6. e.size = 0 /\ e.up = u
  BY <1>2
<1> QED BY <1>5, <1>6 DEF Written

LEMMA NewSound == Sound(NewLBS) /\ Written(NewLBS) /\ Sound(Gone) /\ Gone.up = FALSE
<1>1. TRUE \in BOOLEAN /\ FALSE \in BOOLEAN
  OBVIOUS
<1>2. Sound(NewLBS) /\ Written(NewLBS)
  BY <1>1, EmptySound, Zenon DEF NewLBS
<1>3. Sound(Gone) /\ Gone.up = FALSE
  BY <1>1, EmptySound, Zenon DEF Gone
<1> QED BY <1>2, <1>3

LEMMA DuplicateSound ==
  ASSUME NEW l, Sound(l), l.up, NEW r, r = Duplicate(l)
  PROVE  /\ Sound(r) /\ (Written(l) => Written(r))
         /\ r.ptr = l.size /\ r.size = l.size
         /\ \A i \in 0..l.size-1 : r.body[i] = l.body[i]
<1>l. /\ l.ptr \in Int /\ l.size \in Int /\ l.asize \in Nat /\ l.up \in BOOLEAN
      /\ l.body \in [0..l.asize-1 -> Cells]
      /\ l = [ptr |-> l.ptr, size |-> l.size, asize |-> l.asize, body |-> l.body, up |-> l.up]
      /\ l.asize <= Limit
      /\ l.up => 0 <= l.ptr /\ l.ptr <= l.size /\ l.size <= l.asize
  BY Disassembled
<1>1. CASE l.size = 0
  BY <1>1, NewSound DEF Duplicate, NewLBS, Empty
<1>2. CASE l.size # 0
  <2> DEFINE d == ReserveSize(NewLBS, l.size, FALSE)
             b == [i \in 0..l.size-1 |-> l.body[i]]
             z == [i \in 0..l.size-1 |-> NUL]
  <2>1. l.size \in Nat /\ l.size > 0 /\ l.size <= Limit /\ Limit \in Nat
    BY <1>2, <1>l, SizeAssumption
  <2>u. PICK u \in BOOLEAN : u = TRUE
    OBVIOUS
  <2>2. d = [ptr |-> l.size, size |-> l.size, asize |-> l.size, body |-> z, up |-> u]
    <3> DEFINE e == [i \in {} |-> NUL]
    <3>1. NewLBS = [ptr |-> 0, size |-> 0, asize |-> 0, body |-> e, up |-> u]
      BY <2>u, Zenon DEF NewLBS, Empty
    <3> HIDE DEF e
    <3>2. ~(NewLBS.asize >= l.size) /\ ~(l.size > Limit)
      BY <2>1, <3>1
    <3>3. Grown(NewLBS, l.size, FALSE) = [NewLBS EXCEPT !.asize = l.size, !.body = z]
      BY <3>2 DEF Grown
    <3> HIDE DEF z
    <3>4. Grown(NewLBS, l.size, FALSE)
            = [ptr |-> 0, size |-> 0, asize |-> l.size, body |-> z, up |-> u]
      BY <3>1, <3>3
    <3> DEFINE g == Grown(NewLBS, l.size, FALSE)
    <3>5. d = [g EXCEPT !.size = l.size, !.ptr = l.size]
      BY DEF ReserveSize
    <3> HIDE DEF g, d
    <3>6. g = [ptr |-> 0, size |-> 0, asize |-> l.size, body |-> z, up |-> u]
      BY <3>4 DEF g
    <3> QED BY <3>5, <3>6
  <2>3. r = [d EXCEPT !.body = [i \in DOMAIN d.body |-> l.body[i]]]
    BY <1>2 DEF Duplicate
  <2>4. DOMAIN d.body = 0..l.size-1
    <3>1. DOMAIN z = 0..l.size-1
      OBVIOUS
    <3> HIDE DEF z, d
    <3>2. d.body = z
      BY <2>2
    <3> QED BY <3>1, <3>2
  <2>5. r = [d EXCEPT !.body = b]
    BY <2>3, <2>4
  <2>6. b \in [0..l.size-1 -> Cells]
    BY <1>l, <2>1
  <2>7. \A i \in 0..l.size-1 : b[i] = l.body[i]
    OBVIOUS
  <2> HIDE DEF d, b, z
  <2>8. r = [ptr |-> l.size, size |-> l.size, asize |-> l.size, body |-> b, up |-> u]
    BY <2>2, <2>5
  <2>9. Sound(r)
    BY <2>1, <2>6, <2>8, Assembled
  <2>10. r.size = l.size /\ r.ptr = l.size /\ r.body = b
    BY <2>8
  <2> QED BY <2>7, <2>9, <2>10 DEF Written
<1> QED BY <1>1, <1>2

\* The cursor set inside the used part.
LEMMA MovedSound ==
  ASSUME NEW l, Sound(l), NEW p \in 0..l.size, NEW r, r = [l EXCEPT !.ptr = p]
  PROVE  /\ Sound(r) /\ (r.up = l.up) /\ (Written(l) => Written(r))
         /\ r.ptr = p /\ r.size = l.size /\ r.body = l.body
<1>l. /\ l.ptr \in Int /\ l.size \in Int /\ l.asize \in Nat /\ l.up \in BOOLEAN
      /\ l.body \in [0..l.asize-1 -> Cells]
      /\ l = [ptr |-> l.ptr, size |-> l.size, asize |-> l.asize, body |-> l.body, up |-> l.up]
      /\ l.asize <= Limit
      /\ l.up => 0 <= l.ptr /\ l.ptr <= l.size /\ l.size <= l.asize
  BY Disassembled
<1>1. r = [ptr |-> p, size |-> l.size, asize |-> l.asize, body |-> l.body, up |-> l.up]
  BY <1>l
<1>2. Sound(r)
  <2>1. p \in Int /\ (l.up => 0 <= p /\ p <= l.size /\ l.size <= l.asize)
    BY <1>l
  <2> QED BY <2>1, <1>1, <1>l DEF Sound
<1> QED BY <1>1, <1>2 DEF Written

\* LBS_Seek reserves what lies between the end and a position behind it.
LEMMA SeekSound ==
  ASSUME NEW l, Sound(l), l.up, NEW newpos \in Nat, NEW r, r = SeekTo(l, newpos)
  PROVE  Sound(r) /\ (~(newpos > l.size) => (Written(l) => Written(r)))
<1>l. l.size \in Int
  BY Disassembled
<1>1. CASE newpos > l.size
  <2>1. r = ReserveSize(l, newpos, TRUE)
    BY <1>1 DEF SeekTo
  <2> QED BY <2>1, <1>1, ReserveKeeps DEF Reserved
<1>2. CASE ~(newpos > l.size)
  <2>1. newpos \in 0..l.size
    BY <1>2, <1>l
  <2>2. r = [l EXCEPT !.ptr = newpos]
    BY <1>2 DEF SeekTo
  <2> QED BY <2>1, <2>2, MovedSound
<1> QED BY <1>1, <1>2

\* A position that wraps around below 0 is a position.
LEMMA NewPosNat ==
  ASSUME NEW l, Sound(l), l.up, NEW off \in Sizes \cup {Word - 1},
         NEW whence \in {"SET", "CUR", "END"}
  PROVE  NewPos(l, off, whence) \in Nat
<1>1. /\ Word \in Nat /\ Word > 0 /\ off \in Nat /\ off < Word
      /\ l.ptr \in Nat /\ l.size \in Nat
  BY SizeAssumption, Disassembled
<1> QED BY <1>1 DEF NewPos, Wrapped

-----------------------------------------------------------------------------
(* The calls *)

\* The inductive invariant: the fields fit together, and only a client that
\* reserved bytes can find one that was never written.
IInv ==
  /\ Sound(lbs)
  /\ reserved \in BOOLEAN
  /\ ~reserved => Written(lbs)

\* What it takes for a call to keep the invariant.
LEMMA CallKeeps ==
  ASSUME IInv, NEW l, NEW r \in BOOLEAN, Call(l, r), Sound(l), ~r => Written(l)
  PROVE  IInv'
<1>1. lbs' = (IF l.up THEN l ELSE Gone) /\ reserved' = r
  BY DEF Call
<1>2. CASE l.up
  BY <1>1, <1>2 DEF IInv, Sound, Written
<1>3. CASE ~l.up
  <2>1. lbs' = Gone
    BY <1>1, <1>3
  <2>2. Sound(Gone) /\ Written(Gone)
    BY NewSound DEF Written
  <2> QED BY <1>1, <2>1, <2>2 DEF IInv, Sound, Written
<1> QED BY <1>2, <1>3

LEMMA InitIInv == Init => IInv
BY NewSound DEF Init, IInv

LEMMA NextIInv ==
  ASSUME Fits, IInv, [Next]_vars
  PROVE  IInv'
<1>0. Sound(lbs) /\ reserved \in BOOLEAN /\ (~reserved => Written(lbs))
  BY DEF IInv
<1>c. Ints \subseteq [1..4 -> Bytes] /\ Texts \subseteq Seq(Bytes) /\ Blocks \subseteq Seq(Bytes)
      /\ Sizes \subseteq Nat
  <2>1. Seq(Bytes \ {NUL}) \subseteq Seq(Bytes)
    OBVIOUS
  <2>2. Texts \subseteq Seq(Bytes \ {NUL}) /\ Blocks \subseteq Seq(Bytes) /\ Ints \subseteq [1..4 -> Bytes]
    BY TextAssumption
  <2>3. Sizes \subseteq Nat
    BY SizeAssumption
  <2> QED BY <2>1, <2>2, <2>3
<1>1. CASE LBS_ReserveSize
  <2>1. PICK n \in Sizes, fKeep \in BOOLEAN : Call(ReserveSize(lbs, n, fKeep), TRUE)
    BY <1>1 DEF LBS_ReserveSize
  <2> DEFINE l == ReserveSize(lbs, n, fKeep)
  <2>2. Sound(l)
    BY <1>0, <1>c, ReserveSound DEF Reserved
  <2> HIDE DEF l
  <2>3. Call(l, TRUE)
    BY <2>1 DEF l
  <2> QED BY <2>2, <2>3, CallKeeps, Zenon
<1>2. CASE LBS_Seek
  <2>1. PICK off \in Sizes \cup {Word - 1}, whence \in {"SET", "CUR", "END"} :
          Call(SeekTo(lbs, NewPos(lbs, off, whence)),
               reserved \/ NewPos(lbs, off, whence) > lbs.size)
    BY <1>2 DEF LBS_Seek
  <2> DEFINE newpos == NewPos(lbs, off, whence)
             l == SeekTo(lbs, newpos)
             r == reserved \/ newpos > lbs.size
  <2>2. lbs.up
    BY <2>1 DEF Call
  <2>3. newpos \in Nat
    BY <1>0, <2>2, NewPosNat
  <2> HIDE DEF newpos
  <2>4. Sound(l) /\ (~(newpos > lbs.size) => (Written(lbs) => Written(l)))
    BY <1>0, <2>2, <2>3, SeekSound
  <2>5. r \in BOOLEAN /\ (~r => ~reserved /\ ~(newpos > lbs.size))
    OBVIOUS
  <2>6. Call(l, r)
    BY <2>1 DEF newpos
  <2> HIDE DEF l, r
  <2>7. ~r => Written(l)
    BY <1>0, <2>4, <2>5
  <2> QED BY <2>4, <2>5, <2>6, <2>7, CallKeeps, Zenon
<1>3. CASE LBS_FetchByte \/ LBS_FetchInt \/ LBS_Fetch64 \/ RewindLBS
  <2>1. PICK p : p \in 0..lbs.size /\ Call([lbs EXCEPT !.ptr = p], reserved)
    <3>1. lbs.up
      BY <1>3 DEF LBS_FetchByte, LBS_FetchInt, LBS_Fetch64, RewindLBS, Call
    <3>2. lbs.ptr \in Nat /\ lbs.size \in Nat /\ lbs.ptr <= lbs.size
      BY <1>0, <3>1, Disassembled
    <3>3. /\ Past(lbs, 1) \in 0..lbs.size /\ Past(lbs, 4) \in 0..lbs.size
          /\ Past(lbs, 8) \in 0..lbs.size /\ 0 \in 0..lbs.size
      BY <3>2 DEF Past
    <3> QED BY <1>3, <3>3, Zenon DEF LBS_FetchByte, LBS_FetchInt, LBS_Fetch64, RewindLBS
  <2> DEFINE l == [lbs EXCEPT !.ptr = p]
  <2>2. Sound(l) /\ (Written(lbs) => Written(l))
    BY <1>0, <2>1, MovedSound
  <2>3. Call(l, reserved)
    BY <2>1
  <2> HIDE DEF l
  <2> QED BY <1>0, <2>2, <2>3, CallKeeps
<1>4. CASE LBS_EmitStart
  <2> DEFINE l == EmitStart(lbs)
  <2>1. Call(l, FALSE)
    BY <1>4 DEF LBS_EmitStart
  <2>2. Sound(l) /\ Written(l)
    BY <1>0, StartSound
  <2> HIDE DEF l
  <2> QED BY <2>1, <2>2, CallKeeps, Zenon
<1>5. CASE LBS_Emit
  <2>1. PICK c \in Bytes : Call(Emit(lbs, c), reserved)
    BY <1>5 DEF LBS_Emit
  <2> DEFINE l == Emit(lbs, c)
  <2>2. Sound(l) /\ (Written(lbs) => Written(l))
    BY <1>0, EmitSound
  <2>3. Call(l, reserved)
    BY <2>1
  <2> HIDE DEF l
  <2> QED BY <1>0, <2>2, <2>3, CallKeeps
<1>6. CASE LBS_EmitInt
  <2>1. PICK d \in Ints : Call(EmitInt(lbs, d), reserved)
    BY <1>6 DEF LBS_EmitInt
  <2> DEFINE l == EmitInt(lbs, d)
  <2>2. Sound(l) /\ (Written(lbs) => Written(l))
    BY <1>0, <1>c, EmitIntSound
  <2>3. Call(l, reserved)
    BY <2>1
  <2> HIDE DEF l
  <2> QED BY <1>0, <2>2, <2>3, CallKeeps
<1>7. CASE LBS_Emit64
  <2>1. PICK d \in Ints, e \in Ints : Call(EmitInt(EmitInt(lbs, d), e), reserved)
    BY <1>7 DEF LBS_Emit64, Emit64
  <2> DEFINE k == EmitInt(lbs, d)
             l == EmitInt(k, e)
  <2>2. Sound(k) /\ (Written(lbs) => Written(k))
    BY <1>0, <1>c, EmitIntSound
  <2>3. Call(l, reserved)
    BY <2>1
  <2> HIDE DEF k
  <2>4. Sound(l) /\ (Written(k) => Written(l))
    BY <2>2, <1>c, EmitIntSound
  <2> HIDE DEF l
  <2> QED BY <1>0, <2>2, <2>3, <2>4, CallKeeps
<1>8. CASE LBS_EmitEnd
  <2>1. PICK last \in Bytes : Call(EmitEnd(lbs, last), reserved)
    BY <1>8 DEF LBS_EmitEnd
  <2> DEFINE l == EmitEnd(lbs, last)
  <2>2. Sound(l) /\ (Written(lbs) => Written(l))
    BY <1>0, EmitEndSound
  <2>3. Call(l, reserved)
    BY <2>1
  <2> HIDE DEF l
  <2> QED BY <1>0, <2>2, <2>3, CallKeeps
<1>9. CASE LBS_Trim
  <2>1. PICK n \in Sizes : Call(Trim(lbs, n), reserved)
    BY <1>9 DEF LBS_Trim
  <2> DEFINE l == Trim(lbs, n)
  <2>2. Sound(l) /\ (Written(lbs) => Written(l))
    BY <1>0, <1>c, TrimSound
  <2>3. Call(l, reserved)
    BY <2>1
  <2> HIDE DEF l
  <2> QED BY <1>0, <2>2, <2>3, CallKeeps
<1>10. CASE LBS_EmitString
  <2>1. PICK t \in Texts : Call(EmitString(lbs, t), reserved)
    BY <1>10 DEF LBS_EmitString
  <2> DEFINE l == EmitString(lbs, t)
  <2>2. Sound(l) /\ (Written(lbs) => Written(l))
    BY <1>0, <1>c, EmitStringSound
  <2>3. Call(l, reserved)
    BY <2>1
  <2> HIDE DEF l
  <2> QED BY <1>0, <2>2, <2>3, CallKeeps
<1>11. CASE LBS_String
  <2>1. PICK t \in Texts : Call(String(lbs, t), FALSE)
    BY <1>11 DEF LBS_String
  <2> DEFINE l == String(lbs, t)
  <2>2. Sound(l) /\ Written(l)
    BY <1>0, <1>c, StringSound
  <2>3. Call(l, FALSE)
    BY <2>1
  <2> HIDE DEF l
  <2> QED BY <2>2, <2>3, CallKeeps, Zenon
<1>12. CASE LBS_EmitStringCodeset
  <2>1. PICK l : Call(l, FALSE) /\ Sound(l) /\ Written(l)
    <3>1. CASE \E b \in Blocks : Call(EmitBlock(lbs, b), FALSE)
      <4>1. PICK b \in Blocks : Call(EmitBlock(lbs, b), FALSE)
        BY <3>1
      <4>2. Sound(EmitBlock(lbs, b)) /\ Written(EmitBlock(lbs, b))
        BY <1>0, <1>c, EmitBlockSound
      <4> QED BY <4>1, <4>2
    <3>2. CASE \E c \in Converted : Call(EmitConverted(lbs, c[1], c[2]), FALSE)
      <4>1. PICK c \in Converted : Call(EmitConverted(lbs, c[1], c[2]), FALSE)
        BY <3>2
      <4>2. c[1] \in Nat /\ c[2] \in Seq(Bytes) /\ Len(c[2]) <= 2 * c[1]
        BY ConversionAssumption DEF Fits
      <4> DEFINE l == EmitConverted(lbs, c[1], c[2])
      <4>3. Sound(l) /\ Written(l)
        BY <1>0, <4>2, EmitConvertedSound
      <4> QED BY <4>1, <4>3
    <3> QED BY <1>12, <3>1, <3>2 DEF LBS_EmitStringCodeset
  <2> QED BY <2>1, CallKeeps, Zenon
<1>13. CASE LBS_EmitFix \/ LBS_Duplicate
  <2>1. lbs.up
    BY <1>13 DEF LBS_EmitFix, LBS_Duplicate, Call
  <2>2. Sound(EmitFix(lbs)) /\ (Written(lbs) => Written(EmitFix(lbs)))
    BY <1>0, <2>1, EmitFixSound
  <2>3. Sound(Duplicate(lbs)) /\ (Written(lbs) => Written(Duplicate(lbs)))
    BY <1>0, <2>1, DuplicateSound
  <2>4. Call(EmitFix(lbs), reserved) \/ Call(Duplicate(lbs), reserved)
    BY <1>13 DEF LBS_EmitFix, LBS_Duplicate
  <2> QED BY <1>0, <2>2, <2>3, <2>4, CallKeeps
<1>14. CASE UNCHANGED vars
  BY <1>14, <1>0 DEF vars, IInv, Sound, Written
<1> QED
  BY <1>1, <1>2, <1>3, <1>4, <1>5, <1>6, <1>7, <1>8, <1>9, <1>10, <1>11, <1>12, <1>13, <1>14
  DEF Next

LEMMA Invariant == ASSUME Fits PROVE Spec => []IInv
<1>1. IInv /\ [Next]_vars => IInv'
  BY NextIInv
<1> QED BY <1>1, InitIInv, PTL DEF Spec

\* The fields of an LBS have their types and the buffer has the asize bytes it
\* is taken to have, whatever the growth unit and the limit of memory.
THEOREM TypeCorrect == ASSUME Fits PROVE Spec => []TypeOK
<1>1. IInv => TypeOK
  <2> SUFFICES ASSUME IInv PROVE TypeOK
    OBVIOUS
  <2>1. Sound(lbs) /\ reserved \in BOOLEAN
    BY DEF IInv
  <2>2. /\ lbs.ptr \in Int /\ lbs.size \in Int /\ lbs.asize \in Nat /\ lbs.up \in BOOLEAN
        /\ lbs.body \in [0..lbs.asize-1 -> Bytes \cup {Junk}]
        /\ lbs = [ptr |-> lbs.ptr, size |-> lbs.size, asize |-> lbs.asize,
                  body |-> lbs.body, up |-> lbs.up]
        /\ lbs.asize <= Limit /\ Limit \in Nat
    BY <2>1, Disassembled, SizeAssumption DEF Cells
  <2>3. lbs.asize \in 0..Limit
    BY <2>2
  <2>4. lbs.body \in UNION {[0..n-1 -> Bytes \cup {Junk}] : n \in 0..Limit}
    BY <2>2, <2>3, Zenon
  <2>5. DOMAIN lbs.body = 0..lbs.asize-1
    BY <2>2
  <2> QED BY <2>1, <2>2, <2>4, <2>5 DEF TypeOK
<1> QED BY <1>1, Invariant, PTL

\* After any sequence of calls of LBSfunc.c the cursor is inside the used part
\* and the used part inside the buffer.
THEOREM CursorStaysInside == ASSUME Fits PROVE Spec => []CursorInside
<1>1. IInv => CursorInside
  BY Disassembled DEF IInv, CursorInside
<1> QED BY <1>1, Invariant, PTL

\* No call shows a byte that malloc or realloc left in the buffer, unless the
\* client reserved it and did not write it.
THEOREM NoByteUnwritten == ASSUME Fits PROVE Spec => []AllWritten
<1>1. IInv => AllWritten
  BY DEF IInv, AllWritten, Written
<1> QED BY <1>1, Invariant, PTL

\* An int is four bytes from where the cursor was.
LEMMA IntEmitted ==
  ASSUME NEW l, Sound(l), l.up, NEW d \in [1..4 -> Bytes], NEW r, r = EmitInt(l, d), r.up
  PROVE  /\ r.ptr = l.ptr + 4 /\ r.ptr <= r.size
         /\ \A k \in 1..4 : r.body[l.ptr+k-1] = d[k]
<1>1. PICK e1, e2, e3 :
         /\ Sound(e1) /\ Sound(e2) /\ Sound(e3) /\ e1.up /\ e2.up /\ e3.up
         /\ Emitted(l, d[1], e1) /\ Emitted(e1, d[2], e2)
         /\ Emitted(e2, d[3], e3) /\ Emitted(e3, d[4], r)
  BY EmitIntSound
<1>2. Sound(r)
  BY EmitIntSound
<1> DEFINE p == l.ptr
<1>3. /\ p \in Nat
      /\ e1.ptr \in Int /\ e1.size \in Int /\ e1.ptr <= e1.size
      /\ e2.ptr \in Int /\ e2.size \in Int /\ e2.ptr <= e2.size
      /\ e3.ptr \in Int /\ e3.size \in Int /\ e3.ptr <= e3.size
      /\ r.ptr \in Int /\ r.size \in Int /\ r.ptr <= r.size
  BY <1>1, <1>2, Disassembled
<1> HIDE DEF p
<1>4. e1.ptr = p + 1 /\ e2.ptr = p + 2 /\ e3.ptr = p + 3 /\ r.ptr = p + 4
  BY <1>1, <1>3 DEF Emitted, p
<1>5. e1.body[p] = d[1] /\ e2.body[p+1] = d[2] /\ e3.body[p+2] = d[3] /\ r.body[p+3] = d[4]
  BY <1>1, <1>4 DEF Emitted, p
<1>6. e2.body[p] = d[1]
  <2>1. p \in 0..e1.size-1 /\ p # e1.ptr
    BY <1>3, <1>4
  <2> QED BY <2>1, <1>1, <1>5 DEF Emitted
<1>7. e3.body[p] = d[1] /\ e3.body[p+1] = d[2]
  <2>1. p \in 0..e2.size-1 /\ p # e2.ptr /\ p+1 \in 0..e2.size-1 /\ p+1 # e2.ptr
    BY <1>3, <1>4
  <2> QED BY <2>1, <1>1, <1>5, <1>6 DEF Emitted
<1>8. r.body[p] = d[1] /\ r.body[p+1] = d[2] /\ r.body[p+2] = d[3]
  <2>1. /\ p \in 0..e3.size-1 /\ p # e3.ptr /\ p+1 \in 0..e3.size-1 /\ p+1 # e3.ptr
        /\ p+2 \in 0..e3.size-1 /\ p+2 # e3.ptr
    BY <1>3, <1>4
  <2> QED BY <2>1, <1>1, <1>5, <1>7 DEF Emitted
<1>9. p+1-1 = p /\ p+2-1 = p+1 /\ p+3-1 = p+2 /\ p+4-1 = p+3
  BY <1>3
<1>10. \A k \in 1..4 : r.body[p+k-1] = d[k]
  <2>1. SUFFICES ASSUME NEW k \in 1..4 PROVE r.body[p+k-1] = d[k]
    OBVIOUS
  <2>2. k = 1 \/ k = 2 \/ k = 3 \/ k = 4
    OBVIOUS
  <2> QED BY <2>2, <1>5, <1>8, <1>9
<1> QED BY <1>3, <1>4, <1>10 DEF p

\* Seeking back by four, with size_t's arithmetic, finds what was emitted.
LEMMA IntFetched ==
  ASSUME NEW l, Sound(l), l.up, NEW d \in [1..4 -> Bytes], NEW e, e = EmitInt(l, d), e.up
  PROVE  FetchedInt(SeekTo(e, Wrapped(e.ptr + (Word - 4)))) = d
<1>1. /\ e.ptr = l.ptr + 4 /\ e.ptr <= e.size
      /\ \A k \in 1..4 : e.body[l.ptr+k-1] = d[k]
  BY IntEmitted
<1>2. Sound(e)
  BY EmitIntSound
<1> DEFINE p == l.ptr
<1>3. /\ p \in Nat /\ e.size \in Nat /\ e.size <= Limit /\ Limit \in Nat /\ Word \in Nat
      /\ Limit < Word
  BY <1>2, Disassembled, SizeAssumption
<1>4. Wrapped(e.ptr + (Word - 4)) = p
  <2> HIDE DEF p
  <2>1. e.ptr = p + 4
    BY <1>1 DEF p
  <2>2. e.ptr + (Word - 4) = p + Word /\ p < Word
    BY <2>1, <1>1, <1>3
  <2> QED BY <2>2, <1>3 DEF Wrapped
<1> DEFINE q == SeekTo(e, p)
<1>5. q.ptr = p /\ q.size = e.size /\ q.body = e.body
  <2>1. p \in 0..e.size /\ ~(p > e.size)
    BY <1>1, <1>3
  <2>2. q = [e EXCEPT !.ptr = p]
    BY <2>1 DEF SeekTo
  <2> HIDE DEF q, p
  <2> QED BY <2>1, <2>2, <1>2, MovedSound
<1> HIDE DEF q
<1>6. q.ptr + 4 <= q.size
  BY <1>1, <1>3, <1>5
<1>7. FetchedInt(q) = [k \in 1..4 |-> q.body[q.ptr + k - 1]]
  BY <1>6 DEF FetchedInt
<1>8. \A k \in 1..4 : q.body[q.ptr + k - 1] = d[k]
  BY <1>1, <1>5
<1>9. FetchedInt(q) = d
  BY <1>7, <1>8
<1> QED BY <1>4, <1>9 DEF q

\* An int that LBS_EmitInt wrote is the int that LBS_FetchInt reads after a
\* seek back by four, whatever the buffer holds and wherever it had to grow.
THEOREM IntsComeBack == ASSUME Fits PROVE Spec => []IntRoundTrip
<1>1. IInv => IntRoundTrip
  <2>1. Ints \subseteq [1..4 -> Bytes]
    BY TextAssumption
  <2> QED BY <2>1, IntFetched DEF IInv, IntRoundTrip
<1> QED BY <1>1, Invariant, PTL

-----------------------------------------------------------------------------
(* The byte stream *)

\* What is seen of an LBS, when the used bytes are those of f.
LEMMA Viewed ==
  ASSUME NEW r, NEW n, NEW p, NEW f, r.size = n, r.ptr = p,
         \A i \in 0..n-1 : r.body[i] = f[i]
  PROVE  View(r) = ABS!Stream(n, p, [i \in 0..n-1 |-> f[i]])
BY DEF View, ABS!Stream

LEMMA ViewFields ==
  ASSUME NEW l
  PROVE  /\ View(l).len = l.size /\ View(l).pos = l.ptr
         /\ View(l).at = [i \in 0..l.size-1 |-> l.body[i]]
         /\ DOMAIN View(l).at = 0..l.size-1
         /\ \A i \in 0..l.size-1 : View(l).at[i] = l.body[i]
BY DEF View

LEMMA SameView ==
  ASSUME NEW l, NEW g, Shows(g, l)
  PROVE  View(g) = View(l)
BY DEF Shows, View

LEMMA GoneView == View(Gone) = ABS!Empty /\ View(NewLBS) = ABS!Empty
<1>1. 0..0-1 = {}
  OBVIOUS
<1>2. /\ Gone.size = 0 /\ Gone.ptr = 0 /\ NewLBS.size = 0 /\ NewLBS.ptr = 0
  BY DEF Gone, NewLBS, Empty
<1> QED BY <1>1, <1>2 DEF View, ABS!Empty, ABS!Stream

LEMMA MovedView ==
  ASSUME NEW l, NEW p, NEW r, r.ptr = p, r.size = l.size,
         \A i \in 0..l.size-1 : r.body[i] = l.body[i]
  PROVE  View(r) = [View(l) EXCEPT !.pos = p]
<1> DEFINE f == [i \in 0..l.size-1 |-> l.body[i]]
<1>1. [i \in 0..l.size-1 |-> r.body[i]] = f
  OBVIOUS
<1> HIDE DEF f
<1>2. View(r) = [len |-> l.size, pos |-> p, at |-> f]
  BY <1>1 DEF View
<1>3. View(l) = [len |-> l.size, pos |-> l.ptr, at |-> f]
  BY DEF View, f
<1> QED BY <1>2, <1>3

LEMMA PutView ==
  ASSUME NEW l, Sound(l), l.up, NEW c, NEW r, Emitted(l, c, r)
  PROVE  View(r) = ABS!Put(View(l), c)
<1>1. l.ptr \in Nat /\ l.size \in Nat /\ l.ptr <= l.size
  BY Disassembled
<1> DEFINE n == IF l.ptr < l.size THEN l.size ELSE l.size + 1
           at == View(l).at
           f == [i \in 0..n-1 |-> IF i = l.ptr THEN c ELSE at[i]]
<1>2. ABS!Put(View(l), c) = ABS!Stream(n, l.ptr + 1, f)
  BY ViewFields DEF ABS!Put
<1>3. r.size = n /\ r.ptr = l.ptr + 1
  BY <1>1 DEF Emitted, SizeAfter
<1>4. ASSUME NEW i \in 0..n-1 PROVE r.body[i] = f[i]
  <2>1. CASE i = l.ptr
    BY <2>1 DEF Emitted
  <2>2. CASE i # l.ptr
    <3>1. i \in 0..l.size-1
      BY <1>1, <1>4, <2>2
    <3>2. at[i] = l.body[i]
      BY <3>1, ViewFields
    <3>3. r.body[i] = l.body[i]
      BY <3>1, <2>2 DEF Emitted
    <3> QED BY <3>2, <3>3, <2>2, <1>4
  <2> QED BY <2>1, <2>2
<1>5. f = [i \in 0..n-1 |-> f[i]]
  OBVIOUS
<1> HIDE DEF f, n
<1>6. View(r) = ABS!Stream(n, l.ptr + 1, [i \in 0..n-1 |-> f[i]])
  BY <1>3, <1>4, Viewed
<1> QED BY <1>2, <1>5, <1>6

LEMMA PutIntView ==
  ASSUME NEW l, Sound(l), l.up, NEW d \in [1..4 -> Bytes], NEW r, r = EmitInt(l, d), r.up
  PROVE  View(r) = ABS!PutInt(View(l), d)
<1>1. PICK e1, e2, e3 :
         /\ Sound(e1) /\ Sound(e2) /\ Sound(e3) /\ e1.up /\ e2.up /\ e3.up
         /\ Emitted(l, d[1], e1) /\ Emitted(e1, d[2], e2)
         /\ Emitted(e2, d[3], e3) /\ Emitted(e3, d[4], r)
  BY EmitIntSound
<1>2. /\ View(e1) = ABS!Put(View(l), d[1]) /\ View(e2) = ABS!Put(View(e1), d[2])
      /\ View(e3) = ABS!Put(View(e2), d[3]) /\ View(r) = ABS!Put(View(e3), d[4])
  BY <1>1, PutView
<1> QED BY <1>2 DEF ABS!PutInt

LEMMA AppendedView ==
  ASSUME NEW l, Sound(l), l.up, NEW t \in Seq(Bytes), NEW r, Appended(l, t, r)
  PROVE  View(r) = ABS!PutString(View(l), t)
<1>1. l.ptr \in Nat /\ l.size \in Nat /\ l.ptr <= l.size /\ Len(t) \in Nat
  BY Disassembled
<1> DEFINE n == l.ptr + Len(t)
           at == View(l).at
           f == [i \in 0..n-1 |-> IF i < l.ptr THEN at[i] ELSE t[i - l.ptr + 1]]
<1>2. ABS!PutString(View(l), t) = ABS!Stream(n, n, f)
  BY ViewFields DEF ABS!PutString
<1>3. r.size = n /\ r.ptr = n
  BY DEF Appended
<1>4. ASSUME NEW i \in 0..n-1 PROVE r.body[i] = f[i]
  <2>1. CASE i < l.ptr
    <3>1. i \in 0..l.size-1 /\ i \in 0..l.ptr-1
      BY <1>1, <1>4, <2>1
    <3>2. at[i] = l.body[i]
      BY <3>1, ViewFields
    <3>3. r.body[i] = l.body[i]
      BY <3>1 DEF Appended
    <3> QED BY <3>2, <3>3, <2>1, <1>4
  <2>2. CASE ~(i < l.ptr)
    <3>1. i \in l.ptr..l.ptr+Len(t)-1
      BY <1>1, <1>4, <2>2
    <3>2. r.body[i] = t[i-l.ptr+1]
      BY <3>1 DEF Appended
    <3> QED BY <3>2, <2>2, <1>4
  <2> QED BY <2>1, <2>2
<1>5. f = [i \in 0..n-1 |-> f[i]]
  OBVIOUS
<1> HIDE DEF f, n
<1>6. View(r) = ABS!Stream(n, n, [i \in 0..n-1 |-> f[i]])
  BY <1>3, <1>4, Viewed
<1> QED BY <1>2, <1>5, <1>6

\* The LBS holds t, and the terminator if there is one.
LEMMA FilledView ==
  ASSUME NEW t \in Seq(Bytes), NEW r, NEW n \in Nat, Len(t) <= n,
         r.ptr = n, r.size = n,
         \A i \in 0..Len(t)-1 : r.body[i] = t[i+1],
         \A i \in Len(t)..n-1 : r.body[i] = NUL
  PROVE  View(r) = ABS!Terminated(t, n)
<1> DEFINE f == [i \in 0..n-1 |-> IF i < Len(t) THEN t[i + 1] ELSE NUL]
<1>0. Len(t) \in Nat
  OBVIOUS
<1>1. ABS!Terminated(t, n) = ABS!Stream(n, n, f)
  BY DEF ABS!Terminated
<1>2. ASSUME NEW i \in 0..n-1 PROVE r.body[i] = f[i]
  <2>1. CASE i < Len(t)
    <3>1. i \in 0..Len(t)-1
      BY <1>0, <2>1
    <3> QED BY <3>1, <2>1
  <2>2. CASE ~(i < Len(t))
    <3>1. i \in Len(t)..n-1
      BY <1>0, <2>2
    <3> QED BY <3>1, <2>2
  <2> QED BY <2>1, <2>2
<1>3. f = [i \in 0..n-1 |-> f[i]]
  OBVIOUS
<1> HIDE DEF f
<1>4. View(r) = ABS!Stream(n, n, [i \in 0..n-1 |-> f[i]])
  BY <1>2, Viewed
<1> QED BY <1>1, <1>3, <1>4

LEMMA BlockView ==
  ASSUME NEW t \in Seq(Bytes), NEW r, Filled(t, r)
  PROVE  View(r) = ABS!Terminated(t, Len(t))
<1>1. Len(t) \in Nat /\ Len(t) <= Len(t) /\ \A i \in Len(t)..Len(t)-1 : FALSE
  OBVIOUS
<1> QED BY <1>1, FilledView DEF Filled

LEMMA ConvertedView ==
  ASSUME NEW t \in Seq(Bytes), NEW r, Filled(Append(t, NUL), r)
  PROVE  View(r) = ABS!Terminated(t, Len(t) + 1)
<1> DEFINE n == Len(t) + 1
           q == Append(t, NUL)
<1>1. /\ n \in Nat /\ Len(t) \in Nat /\ Len(t) <= n /\ Len(q) = n
      /\ q[n] = NUL /\ \A i \in 1..Len(t) : q[i] = t[i]
  BY BytesAssumption
<1>2. r.ptr = n /\ r.size = n /\ \A i \in 0..n-1 : r.body[i] = q[i+1]
  BY <1>1 DEF Filled
<1> HIDE DEF q
<1>3. \A i \in 0..Len(t)-1 : r.body[i] = t[i+1]
  <2>1. \A i \in 0..Len(t)-1 : i \in 0..n-1 /\ i+1 \in 1..Len(t)
    BY <1>1
  <2> QED BY <2>1, <1>1, <1>2
<1>4. \A i \in Len(t)..n-1 : r.body[i] = NUL
  <2>1. \A i \in Len(t)..n-1 : i \in 0..n-1 /\ i+1 = n
    BY <1>1
  <2> QED BY <2>1, <1>1, <1>2
<1> HIDE DEF n
<1>5. View(r) = ABS!Terminated(t, n)
  BY <1>1, <1>2, <1>3, <1>4, FilledView
<1> QED BY <1>5 DEF n

LEMMA StringView ==
  ASSUME NEW l, Sound(l), NEW t \in Seq(Bytes), NEW r, r = String(l, t), r.up
  PROVE  View(r) = ABS!Terminated(t, Len(t) + 1)
<1>1. PICK e, f, g :
         /\ Sound(e) /\ Sound(f) /\ Sound(g) /\ e.up /\ f.up /\ g.up
         /\ e.ptr = 0 /\ e.size = 0
         /\ Appended(e, t, f) /\ Shows(g, f) /\ Emitted(g, NUL, r)
  BY StringSound
<1> DEFINE n == Len(t) + 1
<1>2. n \in Nat /\ Len(t) \in Nat /\ Len(t) <= n
  OBVIOUS
<1>3. f.ptr = Len(t) /\ f.size = Len(t) /\ \A i \in 0..Len(t)-1 : f.body[i] = t[i+1]
  <2>1. \A i \in 0..Len(t)-1 : i - 0 + 1 = i + 1 /\ i \in 0..0+Len(t)-1
    BY <1>2
  <2>2. /\ f.ptr = 0 + Len(t) /\ f.size = 0 + Len(t)
        /\ \A i \in 0..0+Len(t)-1 : f.body[i] = t[i-0+1]
    BY <1>1 DEF Appended
  <2> QED BY <2>1, <2>2, <1>2
<1>4. g.ptr = Len(t) /\ g.size = Len(t) /\ \A i \in 0..Len(t)-1 : g.body[i] = t[i+1]
  BY <1>1, <1>3 DEF Shows
<1>5. r.ptr = n /\ r.size = n /\ r.body[Len(t)] = NUL
  BY <1>1, <1>2, <1>4 DEF Emitted, SizeAfter
<1>6. \A i \in 0..Len(t)-1 : r.body[i] = t[i+1]
  <2>1. \A i \in 0..Len(t)-1 : i \in 0..g.size-1 /\ i # g.ptr
    BY <1>2, <1>4
  <2> QED BY <2>1, <1>1, <1>4 DEF Emitted
<1>7. \A i \in Len(t)..n-1 : r.body[i] = NUL
  <2>1. \A i \in Len(t)..n-1 : i = Len(t)
    BY <1>2
  <2> QED BY <2>1, <1>5
<1> HIDE DEF n
<1>8. View(r) = ABS!Terminated(t, n)
  BY <1>2, <1>5, <1>6, <1>7, FilledView
<1> QED BY <1>8 DEF n

LEMMA TrimmedView ==
  ASSUME NEW l, Sound(l), l.up, NEW n \in Nat, n <= l.ptr, NEW r, Trimmed(l, n, r)
  PROVE  View(r) = ABS!Trim(View(l), n)
<1>1. l.ptr \in Nat /\ l.size \in Nat /\ l.ptr <= l.size
  BY Disassembled
<1> DEFINE m == l.size - n
           at == View(l).at
           f == [i \in 0..m-1 |-> IF i \in (l.ptr - n)..(l.ptr - 1) THEN NUL ELSE at[i]]
<1>2. ABS!Trim(View(l), n) = ABS!Stream(m, l.ptr - n, f)
  BY ViewFields DEF ABS!Trim
<1>3. r.size = m /\ r.ptr = l.ptr - n
  BY DEF Trimmed
<1>4. ASSUME NEW i \in 0..m-1 PROVE r.body[i] = f[i]
  <2>1. i \in 0..l.size-1 /\ (i \in (l.ptr - n)..(l.ptr - 1) <=> l.ptr - n <= i /\ i < l.ptr)
    BY <1>1, <1>4
  <2>2. at[i] = l.body[i]
    BY <2>1, ViewFields
  <2>3. r.body[i] = IF l.ptr - n <= i /\ i < l.ptr THEN NUL ELSE l.body[i]
    BY <1>4 DEF Trimmed
  <2> HIDE DEF at
  <2> QED BY <2>1, <2>2, <2>3, <1>4
<1>5. f = [i \in 0..m-1 |-> f[i]]
  OBVIOUS
<1> HIDE DEF f, m
<1>6. View(r) = ABS!Stream(m, l.ptr - n, [i \in 0..m-1 |-> f[i]])
  BY <1>3, <1>4, Viewed
<1> QED BY <1>2, <1>5, <1>6

\* The stream u is what one call may make of the stream t.
Moves(t, u) ==
  \/ u = t
  \/ \E n \in 0..t.len : u = [t EXCEPT !.pos = n]
  \/ \E c \in Bytes : u = ABS!Put(t, c)
  \/ \E d \in Ints : u = ABS!PutInt(t, d)
  \/ \E d, e \in Ints : u = ABS!PutInt(ABS!PutInt(t, d), e)
  \/ \E x \in Texts : u = ABS!PutString(t, x)
  \/ u = ABS!Empty
  \/ \E x \in Texts : u = ABS!Terminated(x, Len(x) + 1)
  \/ \E b \in Blocks : u = ABS!Terminated(b, Len(b))
  \/ \E c \in Converted : u = ABS!Terminated(c[2], Len(c[2]) + 1)
  \/ \E n \in 0..t.pos : u = ABS!Trim(t, n)
  \/ /\ u.len \in Nat /\ u.pos = u.len /\ DOMAIN u.at = 0..u.len-1
     /\ \/ \A i \in 0..u.len-1 : i < t.len => u.at[i] = t.at[i]
        \/ \A i \in 0..u.len-1 : u.at[i] = NUL

\* A stream that moves makes a step of the abstract specification, and so does
\* one whose process ends.
LEMMA CallMoves ==
  ASSUME Sound(lbs), NEW l, Sound(l), NEW r, Call(l, r), l.up => Moves(View(lbs), View(l))
  PROVE  [ABS!Next]_<<View(lbs), lbs.up>>
<1>1. lbs.up /\ lbs' = (IF l.up THEN l ELSE Gone)
  BY DEF Call
<1>2. View(lbs)' = View(lbs')
  BY DEF View
<1>3. CASE l.up
  <2>1. lbs' = l
    BY <1>1, <1>3
  <2>2. (lbs.up)' = lbs.up
    <3>1. lbs.up \in BOOLEAN /\ l.up \in BOOLEAN
      BY DEF Sound
    <3>2. (lbs.up)' = l.up
      BY <2>1
    <3> QED BY <3>1, <3>2, <1>1, <1>3
  <2>3. View(lbs)' = View(l)
    BY <1>2, <2>1
  <2>4. Moves(View(lbs), View(l))
    BY <1>3
  <2> QED
    BY <1>1, <2>2, <2>3, <2>4, Zenon
    DEF Moves, ABS!Next, ABS!Read, ABS!Emit, ABS!EmitInt, ABS!Emit64, ABS!EmitText,
        ABS!SetText, ABS!SetBlock, ABS!CutBack, ABS!Resize
<1>4. CASE ~l.up
  <2>1. lbs' = Gone
    BY <1>1, <1>4
  <2>2. View(lbs)' = ABS!Empty
    BY <1>2, <2>1, GoneView
  <2>3. (lbs.up)' = FALSE
    BY <2>1, NewSound
  <2> QED BY <1>1, <2>2, <2>3 DEF ABS!Next
<1> QED BY <1>3, <1>4

LEMMA ReserveMoves ==
  ASSUME NEW l, Sound(l), l.up, NEW n \in Nat, NEW r, Reserved(r, l, n), r.up,
         Keeps(r, l) \/ Zeroed(r)
  PROVE  Moves(View(l), View(r))
<1> DEFINE t == View(l)
           u == View(r)
<1>1. /\ r.size = n /\ r.ptr = n /\ Sound(r) /\ r.asize >= n
  BY DEF Reserved
<1>2. /\ l.size \in Nat /\ l.asize \in Nat /\ l.size <= l.asize /\ r.asize \in Nat
  BY <1>1, Disassembled
<1>3. /\ u.len = n /\ u.pos = n /\ DOMAIN u.at = 0..n-1
      /\ \A i \in 0..n-1 : u.at[i] = r.body[i]
  BY <1>1, ViewFields
<1>4. t.len = l.size /\ \A i \in 0..l.size-1 : t.at[i] = l.body[i]
  BY ViewFields
<1> HIDE DEF t, u
<1>5. CASE Keeps(r, l)
  <2>1. ASSUME NEW i \in 0..n-1, i < l.size
        PROVE  u.at[i] = t.at[i]
    <3>1. i \in 0..l.size-1 /\ i \in 0..l.asize-1
      BY <1>2, <2>1
    <3>2. r.body[i] = l.body[i]
      BY <3>1, <1>5 DEF Keeps
    <3> QED BY <3>1, <3>2, <1>3, <1>4
  <2> QED BY <2>1, <1>3, <1>4 DEF Moves, t, u
<1>6. CASE Zeroed(r)
  <2>1. ASSUME NEW i \in 0..n-1
        PROVE  u.at[i] = NUL
    <3>1. i \in 0..r.asize-1
      BY <1>1, <1>2
    <3> QED BY <3>1, <1>3, <1>6 DEF Zeroed
  <2> QED BY <2>1, <1>3 DEF Moves, t, u
<1> QED BY <1>5, <1>6

LEMMA CursorMoves ==
  ASSUME NEW l, Sound(l), NEW p \in 0..l.size, NEW r, r.ptr = p, r.size = l.size,
         \A i \in 0..l.size-1 : r.body[i] = l.body[i]
  PROVE  Moves(View(l), View(r))
<1>1. View(r) = [View(l) EXCEPT !.pos = p]
  BY MovedView
<1>2. View(l).len = l.size
  BY ViewFields
<1> QED BY <1>1, <1>2, Zenon DEF Moves

LEMMA SeekMoves ==
  ASSUME NEW l, Sound(l), l.up, NEW newpos \in Nat, NEW r, r = SeekTo(l, newpos), r.up
  PROVE  Moves(View(l), View(r))
<1>l. l.size \in Int
  BY Disassembled
<1>1. CASE newpos > l.size
  <2>1. r = ReserveSize(l, newpos, TRUE)
    BY <1>1 DEF SeekTo
  <2>2. Reserved(r, l, newpos) /\ Keeps(r, l)
    BY <2>1, ReserveKeeps, Zenon
  <2> QED BY <2>2, ReserveMoves
<1>2. CASE ~(newpos > l.size)
  <2>1. newpos \in 0..l.size
    BY <1>2, <1>l
  <2>2. r = [l EXCEPT !.ptr = newpos]
    BY <1>2 DEF SeekTo
  <2>3. r.ptr = newpos /\ r.size = l.size /\ r.body = l.body
    BY <2>1, <2>2, MovedSound
  <2> QED BY <2>1, <2>3, CursorMoves
<1> QED BY <1>1, <1>2

LEMMA NextMoves ==
  ASSUME Fits, IInv, [Next]_vars
  PROVE  [ABS!Next]_<<View(lbs), lbs.up>>
<1>0. Sound(lbs)
  BY DEF IInv
<1>c. Ints \subseteq [1..4 -> Bytes] /\ Texts \subseteq Seq(Bytes) /\ Blocks \subseteq Seq(Bytes)
      /\ Sizes \subseteq Nat /\ NUL \in Bytes
  <2>1. Seq(Bytes \ {NUL}) \subseteq Seq(Bytes)
    OBVIOUS
  <2>2. Texts \subseteq Seq(Bytes \ {NUL}) /\ Blocks \subseteq Seq(Bytes) /\ Ints \subseteq [1..4 -> Bytes]
    BY TextAssumption
  <2>3. Sizes \subseteq Nat
    BY SizeAssumption
  <2> QED BY <2>1, <2>2, <2>3, BytesAssumption
<1>u. CASE ~lbs.up
  <2>1. UNCHANGED vars
    BY <1>u DEF Next, Call, LBS_ReserveSize, LBS_Seek, LBS_FetchByte, LBS_FetchInt, LBS_Fetch64,
      LBS_EmitStart, LBS_Emit, LBS_EmitInt, LBS_Emit64, LBS_EmitEnd, LBS_Trim, LBS_EmitString,
      LBS_String, LBS_EmitStringCodeset, LBS_EmitFix, LBS_Duplicate, RewindLBS
  <2> QED BY <2>1 DEF vars, View
<1>v. CASE UNCHANGED vars
  BY <1>v DEF vars, View
<1> SUFFICES ASSUME lbs.up, Next PROVE [ABS!Next]_<<View(lbs), lbs.up>>
  BY <1>u, <1>v
<1>1. CASE LBS_ReserveSize
  <2>1. PICK n \in Sizes, fKeep \in BOOLEAN : Call(ReserveSize(lbs, n, fKeep), TRUE)
    BY <1>1 DEF LBS_ReserveSize
  <2> DEFINE l == ReserveSize(lbs, n, fKeep)
  <2>2. Reserved(l, lbs, n) /\ (Keeps(l, lbs) \/ Zeroed(l))
    BY <1>0, <1>c, ReserveSound
  <2>3. Call(l, TRUE)
    BY <2>1
  <2> HIDE DEF l
  <2>4. n \in Nat
    BY <1>c
  <2>5. Sound(l) /\ (l.up => Moves(View(lbs), View(l)))
    BY <1>0, <2>2, <2>4, ReserveMoves DEF Reserved
  <2> QED BY <1>0, <2>3, <2>5, CallMoves, Zenon
<1>2. CASE LBS_Seek
  <2>1. PICK off \in Sizes \cup {Word - 1}, whence \in {"SET", "CUR", "END"} :
          Call(SeekTo(lbs, NewPos(lbs, off, whence)),
               reserved \/ NewPos(lbs, off, whence) > lbs.size)
    BY <1>2 DEF LBS_Seek
  <2> DEFINE newpos == NewPos(lbs, off, whence)
             l == SeekTo(lbs, newpos)
             r == reserved \/ newpos > lbs.size
  <2>2. newpos \in Nat
    BY <1>0, NewPosNat
  <2> HIDE DEF newpos
  <2>3. Sound(l) /\ (l.up => Moves(View(lbs), View(l)))
    BY <1>0, <2>2, SeekSound, SeekMoves
  <2>4. Call(l, r)
    BY <2>1 DEF newpos
  <2> HIDE DEF l, r
  <2> QED BY <1>0, <2>3, <2>4, CallMoves
<1>3. CASE LBS_FetchByte \/ LBS_FetchInt \/ LBS_Fetch64 \/ RewindLBS
  <2>1. PICK p : p \in 0..lbs.size /\ Call([lbs EXCEPT !.ptr = p], reserved)
    <3>1. lbs.ptr \in Nat /\ lbs.size \in Nat /\ lbs.ptr <= lbs.size
      BY <1>0, Disassembled
    <3>2. /\ Past(lbs, 1) \in 0..lbs.size /\ Past(lbs, 4) \in 0..lbs.size
          /\ Past(lbs, 8) \in 0..lbs.size /\ 0 \in 0..lbs.size
      BY <3>1 DEF Past
    <3> QED BY <1>3, <3>2, Zenon DEF LBS_FetchByte, LBS_FetchInt, LBS_Fetch64, RewindLBS
  <2> DEFINE l == [lbs EXCEPT !.ptr = p]
  <2>2. Sound(l) /\ l.ptr = p /\ l.size = lbs.size /\ l.body = lbs.body
    BY <1>0, <2>1, MovedSound
  <2>3. Call(l, reserved)
    BY <2>1
  <2> HIDE DEF l
  <2>4. Moves(View(lbs), View(l))
    BY <1>0, <2>1, <2>2, CursorMoves
  <2> QED BY <1>0, <2>2, <2>3, <2>4, CallMoves
<1>4. CASE LBS_EmitStart
  <2> DEFINE l == EmitStart(lbs)
  <2>1. Call(l, FALSE)
    BY <1>4 DEF LBS_EmitStart
  <2>2. Sound(l) /\ l.ptr = 0 /\ l.size = 0
    BY <1>0, StartSound
  <2> HIDE DEF l
  <2>3. View(l) = View(NewLBS)
    <3>1. NewLBS.ptr = 0 /\ NewLBS.size = 0 /\ \A i \in 0..0-1 : FALSE
      BY DEF NewLBS, Empty
    <3>2. Shows(l, NewLBS)
      BY <2>2, <3>1 DEF Shows
    <3> QED BY <3>2, SameView
  <2>4. Moves(View(lbs), View(l))
    BY <2>3, GoneView, Zenon DEF Moves
  <2> QED BY <1>0, <2>1, <2>2, <2>4, CallMoves, Zenon
<1>5. CASE LBS_Emit
  <2>1. PICK c \in Bytes : Call(Emit(lbs, c), reserved)
    BY <1>5 DEF LBS_Emit
  <2> DEFINE l == Emit(lbs, c)
  <2>2. Sound(l) /\ (l.up => Moves(View(lbs), View(l)))
    <3>1. Sound(l)
      BY <1>0, EmitSound
    <3>2. ASSUME l.up PROVE Moves(View(lbs), View(l))
      <4>1. Emitted(lbs, c, l)
        BY <1>0, <3>2, EmitSound
      <4> HIDE DEF l
      <4>2. View(l) = ABS!Put(View(lbs), c)
        BY <1>0, <4>1, PutView
      <4> QED BY <4>2, Zenon DEF Moves
    <3> QED BY <3>1, <3>2
  <2>3. Call(l, reserved)
    BY <2>1
  <2> HIDE DEF l
  <2> QED BY <1>0, <2>2, <2>3, CallMoves
<1>6. CASE LBS_EmitInt
  <2>1. PICK d \in Ints : Call(EmitInt(lbs, d), reserved)
    BY <1>6 DEF LBS_EmitInt
  <2> DEFINE l == EmitInt(lbs, d)
  <2>2. Sound(l) /\ (l.up => Moves(View(lbs), View(l)))
    <3>1. Sound(l)
      BY <1>0, <1>c, EmitIntSound
    <3>2. ASSUME l.up PROVE Moves(View(lbs), View(l))
      <4>1. View(l) = ABS!PutInt(View(lbs), d)
        BY <1>0, <1>c, <3>2, PutIntView
      <4> QED BY <4>1, Zenon DEF Moves
    <3> QED BY <3>1, <3>2
  <2>3. Call(l, reserved)
    BY <2>1
  <2> HIDE DEF l
  <2> QED BY <1>0, <2>2, <2>3, CallMoves
<1>7. CASE LBS_Emit64
  <2>1. PICK d \in Ints, e \in Ints : Call(EmitInt(EmitInt(lbs, d), e), reserved)
    BY <1>7 DEF LBS_Emit64, Emit64
  <2> DEFINE k == EmitInt(lbs, d)
             l == EmitInt(k, e)
  <2>2. Sound(k) /\ (k.up => View(k) = ABS!PutInt(View(lbs), d))
    BY <1>0, <1>c, EmitIntSound, PutIntView
  <2>3. Call(l, reserved)
    BY <2>1
  <2> HIDE DEF k
  <2>4. Sound(l) /\ (l.up => k.up)
    BY <2>2, <1>c, EmitIntSound
  <2>5. ASSUME l.up PROVE Moves(View(lbs), View(l))
    <3>1. View(l) = ABS!PutInt(View(k), e)
      BY <2>2, <2>4, <2>5, <1>c, PutIntView
    <3>2. View(l) = ABS!PutInt(ABS!PutInt(View(lbs), d), e)
      BY <3>1, <2>2, <2>4, <2>5
    <3> QED BY <3>2, Zenon DEF Moves
  <2> HIDE DEF l
  <2> QED BY <1>0, <2>3, <2>4, <2>5, CallMoves
<1>8. CASE LBS_EmitEnd
  <2>1. PICK last \in Bytes : Call(EmitEnd(lbs, last), reserved)
    BY <1>8 DEF LBS_EmitEnd
  <2> DEFINE l == EmitEnd(lbs, last)
  <2>2. Sound(l) /\ (l.up => Moves(View(lbs), View(l)))
    <3>1. Sound(l)
      BY <1>0, EmitEndSound
    <3>2. ASSUME l.up PROVE Moves(View(lbs), View(l))
      <4>1. CASE lbs.ptr = 0 \/ last # NUL
        <5>1. PICK g : Sound(g) /\ g.up /\ Shows(g, lbs) /\ Emitted(g, NUL, l)
          BY <1>0, <3>2, <4>1, EmitEndSound
        <5> HIDE DEF l
        <5>2. View(l) = ABS!Put(View(g), NUL) /\ View(g) = View(lbs)
          BY <5>1, PutView, SameView
        <5>3. View(l) = ABS!Put(View(lbs), NUL)
          BY <5>2
        <5> QED BY <5>3, <1>c, Zenon DEF Moves
      <4>2. CASE ~(lbs.ptr = 0 \/ last # NUL)
        <5>1. l = lbs
          BY <1>0, <4>2, EmitEndSound
        <5> QED BY <5>1, Zenon DEF Moves
      <4> QED BY <4>1, <4>2
    <3> QED BY <3>1, <3>2
  <2>3. Call(l, reserved)
    BY <2>1
  <2> HIDE DEF l
  <2> QED BY <1>0, <2>2, <2>3, CallMoves
<1>9. CASE LBS_Trim
  <2>1. PICK n \in Sizes : Call(Trim(lbs, n), reserved)
    BY <1>9 DEF LBS_Trim
  <2> DEFINE l == Trim(lbs, n)
  <2>2. Sound(l) /\ (l.up => Moves(View(lbs), View(l)))
    <3>1. Sound(l)
      BY <1>0, <1>c, TrimSound
    <3>2. ASSUME l.up PROVE Moves(View(lbs), View(l))
      <4>1. n \in Nat /\ lbs.ptr \in Nat
        BY <1>0, <1>c, Disassembled
      <4>2. CASE lbs.ptr >= n
        <5>1. Trimmed(lbs, n, l) /\ n <= lbs.ptr
          BY <1>0, <4>1, <4>2, TrimSound
        <5> HIDE DEF l
        <5>2. View(l) = ABS!Trim(View(lbs), n)
          BY <1>0, <4>1, <5>1, TrimmedView
        <5>3. n \in 0..View(lbs).pos
          <6>1. View(lbs).pos = lbs.ptr
            BY ViewFields
          <6>2. n \in 0..lbs.ptr
            BY <4>1, <5>1
          <6> QED BY <6>1, <6>2
        <5> QED BY <5>2, <5>3, Zenon DEF Moves
      <4>3. CASE ~(lbs.ptr >= n)
        <5>1. l = lbs
          BY <1>0, <4>1, <4>3, TrimSound
        <5> QED BY <5>1, Zenon DEF Moves
      <4> QED BY <4>2, <4>3
    <3> QED BY <3>1, <3>2
  <2>3. Call(l, reserved)
    BY <2>1
  <2> HIDE DEF l
  <2> QED BY <1>0, <2>2, <2>3, CallMoves
<1>10. CASE LBS_EmitString
  <2>1. PICK t \in Texts : Call(EmitString(lbs, t), reserved)
    BY <1>10 DEF LBS_EmitString
  <2> DEFINE l == EmitString(lbs, t)
  <2>2. Sound(l) /\ (l.up => Moves(View(lbs), View(l)))
    <3>1. Sound(l)
      BY <1>0, <1>c, EmitStringSound
    <3>2. ASSUME l.up PROVE Moves(View(lbs), View(l))
      <4>1. Appended(lbs, t, l) /\ t \in Seq(Bytes)
        BY <1>0, <1>c, <3>2, EmitStringSound
      <4> HIDE DEF l
      <4>2. View(l) = ABS!PutString(View(lbs), t)
        BY <1>0, <4>1, AppendedView
      <4> QED BY <4>2, Zenon DEF Moves
    <3> QED BY <3>1, <3>2
  <2>3. Call(l, reserved)
    BY <2>1
  <2> HIDE DEF l
  <2> QED BY <1>0, <2>2, <2>3, CallMoves
<1>11. CASE LBS_String
  <2>1. PICK t \in Texts : Call(String(lbs, t), FALSE)
    BY <1>11 DEF LBS_String
  <2> DEFINE l == String(lbs, t)
  <2>2. Sound(l) /\ (l.up => Moves(View(lbs), View(l)))
    <3>1. Sound(l)
      BY <1>0, <1>c, StringSound
    <3>2. ASSUME l.up PROVE Moves(View(lbs), View(l))
      <4>1. View(l) = ABS!Terminated(t, Len(t) + 1)
        BY <1>0, <1>c, <3>2, StringView
      <4> HIDE DEF l
      <4> QED BY <4>1, Zenon DEF Moves
    <3> QED BY <3>1, <3>2
  <2>3. Call(l, FALSE)
    BY <2>1
  <2> HIDE DEF l
  <2> QED BY <1>0, <2>2, <2>3, CallMoves
<1>12. CASE LBS_EmitStringCodeset
  <2>1. PICK l : Call(l, FALSE) /\ Sound(l) /\ (l.up => Moves(View(lbs), View(l)))
    <3>1. CASE \E b \in Blocks : Call(EmitBlock(lbs, b), FALSE)
      <4>1. PICK b \in Blocks : Call(EmitBlock(lbs, b), FALSE)
        BY <3>1
      <4> DEFINE l == EmitBlock(lbs, b)
      <4>2. Sound(l) /\ (l.up => Filled(b, l)) /\ b \in Seq(Bytes)
        BY <1>0, <1>c, EmitBlockSound
      <4>3. Call(l, FALSE)
        BY <4>1
      <4> HIDE DEF l
      <4>4. l.up => View(l) = ABS!Terminated(b, Len(b))
        BY <4>2, BlockView
      <4>5. l.up => Moves(View(lbs), View(l))
        BY <4>4, Zenon DEF Moves
      <4> QED BY <4>2, <4>3, <4>5
    <3>2. CASE \E c \in Converted : Call(EmitConverted(lbs, c[1], c[2]), FALSE)
      <4>1. PICK c \in Converted : Call(EmitConverted(lbs, c[1], c[2]), FALSE)
        BY <3>2
      <4>2. c[1] \in Nat /\ c[2] \in Seq(Bytes) /\ Len(c[2]) <= 2 * c[1]
        BY ConversionAssumption DEF Fits
      <4> DEFINE l == EmitConverted(lbs, c[1], c[2])
      <4>3. Sound(l) /\ (l.up => Filled(Append(c[2], NUL), l))
        BY <1>0, <4>2, EmitConvertedSound
      <4>4. Call(l, FALSE)
        BY <4>1
      <4> HIDE DEF l
      <4>5. l.up => View(l) = ABS!Terminated(c[2], Len(c[2]) + 1)
        BY <4>2, <4>3, ConvertedView
      <4>6. l.up => Moves(View(lbs), View(l))
        BY <4>5, Zenon DEF Moves
      <4> QED BY <4>3, <4>4, <4>6
    <3> QED BY <1>12, <3>1, <3>2 DEF LBS_EmitStringCodeset
  <2> QED BY <1>0, <2>1, CallMoves, Zenon
<1>13. CASE LBS_EmitFix
  <2> DEFINE l == EmitFix(lbs)
  <2>1. Call(l, reserved)
    BY <1>13 DEF LBS_EmitFix
  <2>2. Sound(l) /\ Shows(l, [lbs EXCEPT !.ptr = 0])
    BY <1>0, EmitFixSound
  <2> HIDE DEF l
  <2>3. 0 \in 0..lbs.size
    BY <1>0, Disassembled
  <2> DEFINE m == [lbs EXCEPT !.ptr = 0]
  <2>4. m.ptr = 0 /\ m.size = lbs.size /\ m.body = lbs.body
    BY <1>0, <2>3, MovedSound
  <2> HIDE DEF m
  <2>5. l.ptr = 0 /\ l.size = lbs.size /\ \A i \in 0..lbs.size-1 : l.body[i] = lbs.body[i]
    BY <2>2, <2>4 DEF Shows, m
  <2>6. Moves(View(lbs), View(l))
    BY <1>0, <2>3, <2>5, CursorMoves
  <2> QED BY <1>0, <2>1, <2>2, <2>6, CallMoves
<1>14. CASE LBS_Duplicate
  <2> DEFINE l == Duplicate(lbs)
  <2>1. Call(l, reserved)
    BY <1>14 DEF LBS_Duplicate
  <2>2. /\ Sound(l) /\ l.ptr = lbs.size /\ l.size = lbs.size
        /\ \A i \in 0..lbs.size-1 : l.body[i] = lbs.body[i]
    BY <1>0, DuplicateSound
  <2> HIDE DEF l
  <2>3. lbs.size \in 0..lbs.size
    BY <1>0, Disassembled
  <2>4. Moves(View(lbs), View(l))
    BY <1>0, <2>2, <2>3, CursorMoves
  <2> QED BY <1>0, <2>1, <2>2, <2>4, CallMoves
<1> QED
  BY <1>1, <1>2, <1>3, <1>4, <1>5, <1>6, <1>7, <1>8, <1>9, <1>10, <1>11, <1>12, <1>13, <1>14
  DEF Next

\* LBSfunc.c implements a plain stream of bytes with a cursor: growing,
\* shrinking, clearing and copying the buffer never show in what is read, and
\* when memory runs out the stream ends.
THEOREM StreamImplemented == ASSUME Fits PROVE Spec => ImplementsStream
<1>1. Init => ABS!Init
  BY GoneView DEF Init, ABS!Init, NewLBS, Empty
<1>2. IInv /\ [Next]_vars => [ABS!Next]_<<View(lbs), lbs.up>>
  BY NextMoves
<1> QED BY <1>1, <1>2, Invariant, PTL DEF Spec, ImplementsStream, ABS!Spec

=============================================================================
