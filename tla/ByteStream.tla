----------------------------- MODULE ByteStream -----------------------------
(***************************************************************************)
(* What a LargeByteString (src/src/LBSfunc.c) is to its users: a string of *)
(* bytes with a cursor.  Nothing here knows of buffers or capacities.      *)
(***************************************************************************)
EXTENDS Integers, Sequences

CONSTANTS Bytes, NUL,
          Junk,      \* a byte nobody wrote
          Texts,     \* the strings callers emit
          Blocks,    \* the buffers they copy from
          Converted, \* pairs of a declared size and what conversion makes of a text
          Ints       \* the ints they emit, as four bytes each

VARIABLES s,      \* [len, pos, at]: at[0..len-1] are the bytes, pos the cursor
          open    \* FALSE once memory ran out and the process is gone

Stream(n, p, at) == [len |-> n, pos |-> p, at |-> at]
Empty == Stream(0, 0, [i \in {} |-> NUL])

\* One byte: over the byte at the cursor, or behind the last one.
Put(st, c) ==
  LET n == IF st.pos < st.len THEN st.len ELSE st.len + 1
  IN Stream(n, st.pos + 1, [i \in 0..n-1 |-> IF i = st.pos THEN c ELSE st.at[i]])

PutInt(st, d) == Put(Put(Put(Put(st, d[1]), d[2]), d[3]), d[4])

\* A string ends the stream where it ends.
PutString(st, t) ==
  LET n == st.pos + Len(t)
  IN Stream(n, n, [i \in 0..n-1 |-> IF i < st.pos THEN st.at[i] ELSE t[i - st.pos + 1]])

\* A text and whatever terminator it is given.
Terminated(t, n) ==
  Stream(n, n, [i \in 0..n-1 |-> IF i < Len(t) THEN t[i + 1] ELSE NUL])

\* The bytes before the cursor are taken out of the length, not out of place.
Trim(st, n) ==
  Stream(st.len - n, st.pos - n,
         [i \in 0..st.len-n-1 |-> IF i \in (st.pos - n)..(st.pos - 1) THEN NUL ELSE st.at[i]])

Init == s = Empty /\ open = TRUE

Read(n)  == s' = [s EXCEPT !.pos = n]
Emit     == \E c \in Bytes : s' = Put(s, c)
EmitInt  == \E d \in Ints : s' = PutInt(s, d)
Emit64   == \E d, e \in Ints : s' = PutInt(PutInt(s, d), e)
EmitText == \E t \in Texts : s' = PutString(s, t)
SetText  == \E t \in Texts : s' = Terminated(t, Len(t) + 1)
SetBlock == \/ \E b \in Blocks : s' = Terminated(b, Len(b))
            \/ \E c \in Converted : s' = Terminated(c[2], Len(c[2]) + 1)
CutBack  == \E n \in 0..s.pos : s' = Trim(s, n)

\* The length is set; the old bytes stay, or all are cleared, and new ones are
\* left to whoever asked for them.
Resize == /\ s'.len \in Nat /\ s'.pos = s'.len /\ DOMAIN s'.at = 0..s'.len-1
          /\ \/ \A i \in 0..s'.len-1 : i < s.len => s'.at[i] = s.at[i]
             \/ \A i \in 0..s'.len-1 : s'.at[i] = NUL

Next == /\ open
        /\ \/ /\ open' = open
              /\ \/ \E n \in 0..s.len : Read(n)
                 \/ Emit \/ EmitInt \/ Emit64 \/ EmitText
                 \/ s' = Empty \/ SetText \/ SetBlock
                 \/ CutBack \/ Resize
           \/ open' = FALSE /\ s' = Empty

Spec == Init /\ [][Next]_<<s, open>>
=============================================================================
