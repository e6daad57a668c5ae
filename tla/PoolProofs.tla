----------------------------- MODULE PoolProofs -----------------------------
(***************************************************************************)
(* The table of named pools and the areas of the pools, for any number of  *)
(* threads, names, pools and areas, as long as ReleaseAllPool meets no     *)
(* named pool: which it does not survive.                                  *)
(*                                                                         *)
(* First the table, whether or not clients share pools.  Then the areas,   *)
(* where they do not (MCPoolShared shows why).  The list of a pool is      *)
(* described without walking it: which area is its first, which pool an    *)
(* area is for, and a rank that falls along the list.  ListFrom, which     *)
(* walks, is shown to agree with that.                                     *)
(***************************************************************************)
EXTENDS Pool, LeastNumber

PoolRecord == [name : Names \cup {Null}, head : Areas \cup {Null}]
CallRecord == [op : Ops \cup {"none"}, name : Names \cup {Null}, area : Areas \cup {Null}]

(* What the proof needs of the types: the areas' own contents do not matter.         *)
Typed ==
  /\ up \in BOOLEAN
  /\ holds \in [Threads -> {"none", "write"}]
  /\ hash \in [Names -> Pools \cup {Null}]
  /\ pool \in [Pools -> {Free} \cup PoolRecord]
  /\ pc \in [Threads -> Places]
  /\ call \in [Threads -> CallRecord]
  /\ po \in [Threads -> Pools \cup {Null}]
  /\ rp = [t \in Threads |-> rp[t]]
  /\ user \in [Pools -> Threads \cup {Null}]
  /\ \A t \in Threads : pc[t] = "link" => rp[t] \in Areas

Critical == {"new", "get", "unname", "all"}
ByName == {"GetArea", "ReleaseArea", "ReleasePool"}

(* Which call a thread can be in at each place.                                      *)
CallAtPlace ==
  \A t \in Threads :
    /\ pc[t] = "idle" => call[t].op = "none"
    /\ pc[t] \in {"wantNew", "new"} => call[t].op = "NewPool" /\ call[t].name \in Names
    /\ pc[t] \in {"wantGet", "get"} => call[t].op \in ByName /\ call[t].name \in Names
    /\ pc[t] = "use" => call[t].op \in ByName
    /\ pc[t] = "link" => call[t].op = "GetArea" /\ po[t] # Null
    /\ pc[t] \in {"sweep", "wantUnname", "unname"} => call[t].op = "ReleasePool"
    /\ pc[t] \in {"wantAll", "all"} <=> call[t].op = "ReleaseAllPool"

(* While the table is taken down, or is not there, it has no entry and nobody makes  *)
(* one.                                                                              *)
NoTable == ~up \/ \E t \in Threads : call[t].op = "ReleaseAllPool"
TakenDown ==
  NoTable => /\ \A n \in Names : hash[n] = Null
             /\ \A t \in Threads : pc[t] \notin {"wantNew", "new"}

(* The pool a thread is releasing: by its name until it is looked up.  It is         *)
(* allocated, nobody else releases it, and its name is gone before it is swept.      *)
Releasing(t) == call[t].op = "ReleasePool" /\ pc[t] # "wild"
Target(t) == IF pc[t] \in {"wantGet", "get"} THEN hash[call[t].name] ELSE po[t]
ReleasedByOne ==
  /\ \A t \in Threads : Releasing(t) =>
       /\ Target(t) \in Pools /\ pool[Target(t)] # Free /\ user[Target(t)] = Null
       /\ pc[t] = "sweep" => pool[po[t]].name = Null
  /\ \A t, u \in Threads : Releasing(t) /\ Releasing(u) /\ Target(t) = Target(u) => t = u
  /\ \A p \in Pools : user[p] # Null => pool[p] # Free

TableInv == TableAgrees /\ TakenDown /\ ReleasedByOne

IInv == Typed /\ CallAtPlace /\ LockHeldInside /\ TableInv

LEMMA CriticalPlaces == Range(Locking) = Critical
  BY DEF Range, Locking, Critical

LEMMA LockingPlaces ==
    /\ DOMAIN Locking = {"wantNew", "wantGet", "wantUnname", "wantAll"}
    /\ Locking["wantNew"] = "new" /\ Locking["wantGet"] = "get"
    /\ Locking["wantUnname"] = "unname" /\ Locking["wantAll"] = "all"
  BY DEF Locking

(* What _ReleasePool and _GetArea write into a pool that is allocated.               *)
LEMMA NameRemoved ==
    ASSUME NEW r \in PoolRecord
    PROVE  /\ [r EXCEPT !.name = Null] \in PoolRecord /\ [r EXCEPT !.name = Null] # Free
           /\ [r EXCEPT !.name = Null].name = Null
  BY FreeIsNoPool DEF PoolRecord

LEMMA HeadChanged ==
    ASSUME NEW r \in PoolRecord, NEW a \in Areas
    PROVE  /\ [r EXCEPT !.head = a] \in PoolRecord /\ [r EXCEPT !.head = a] # Free
           /\ [r EXCEPT !.head = a].name = r.name
  BY FreeIsNoPool DEF PoolRecord

LEMMA InitTyped == Init => Typed
  BY DEF Init, Typed, Lk!Init, Places, Ops, CallRecord, NoCall, Range, Locking

LEMMA InitRest == Init => CallAtPlace /\ LockHeldInside /\ TableInv
  BY CriticalPlaces DEF Init, CallAtPlace, LockHeldInside, Critical, TableInv, TableAgrees, TakenDown, NoTable,
     ReleasedByOne, Releasing, Lk!Init, NoCall
LEMMA TypedStep ==
    ASSUME ~ReleaseAllNamed, Typed, CallAtPlace, TakenDown, [Next]_vars
    PROVE  Typed'
<1>. USE CriticalPlaces, LockingPlaces, NullIsNoAddress DEF table, heap, local, client, lockVars, Goto, Typed, Places, Ops, CallRecord, PoolRecord, NoCall, ByName, CallAtPlace
<1>1. CASE UNCHANGED vars
  BY <1>1 DEF vars
<1>2. ASSUME NEW t \in Threads, Run(t)
      PROVE  Typed'
  <2>1. CASE LockWrite(t)
    <3>1. CASE Lk!QueueWriter(t) /\ UNCHANGED pc
      BY <2>1, <3>1 DEF LockWrite, Lk!QueueWriter
    <3>2. CASE Lk!AdmitWriter(t) /\ Goto(t, Locking[pc[t]])
      <4>1. Locking[pc[t]] \in Critical /\ Critical \subseteq Places
        BY <2>1 DEF LockWrite, Critical
      <4>2. pc' \in [Threads -> Places] /\ \A u \in Threads : pc'[u] = "link" => pc[u] = "link"
        BY <3>2, <4>1 DEF Critical
      <4>. QED BY <2>1, <3>2, <4>2 DEF LockWrite, Lk!AdmitWriter
    <3>. QED BY <2>1, <3>1, <3>2 DEF LockWrite
  <2>2. CASE NewPoolNamed(t)
    <3>1. CASE Taken(call[t].name)
      BY <2>2, <3>1 DEF NewPoolNamed, Lk!Leave, Return
    <3>2. CASE ~Taken(call[t].name)
      <4>. PICK p \in Pools : /\ pool' = [pool EXCEPT ![p] = [name |-> call[t].name, head |-> Null]]
                              /\ hash' = [hash EXCEPT ![call[t].name] = p]
                              /\ user' = [user EXCEPT ![p] = t]
        BY <2>2, <3>2 DEF NewPoolNamed
      <4>1. call[t].name \in Names
        BY <2>2 DEF NewPoolNamed
      <4>2. pool' \in [Pools -> {Free} \cup PoolRecord]
        BY <4>1
      <4>3. hash' \in [Names -> Pools \cup {Null}] /\ user' \in [Pools -> Threads \cup {Null}]
        BY <4>1
      <4>. QED BY <2>2, <4>2, <4>3 DEF NewPoolNamed, Lk!Leave, Return
    <3>. QED BY <3>1, <3>2
  <2>3. CASE GetPool(t)
    BY <2>3 DEF GetPool, Lk!Leave
  <2>4. CASE Unname(t)
    <3>1. pool' \in [Pools -> {Free} \cup PoolRecord]
      <4>1. pool' = [pool EXCEPT ![po[t]] = [@ EXCEPT !.name = Null]]
        BY <2>4 DEF Unname, FreedName
      <4>2. CASE po[t] \in Pools
        <5>1. pool[po[t]] \in PoolRecord
          BY <2>4, <4>2 DEF Unname
        <5>2. [pool[po[t]] EXCEPT !.name = Null] \in PoolRecord
          BY <5>1, NameRemoved
        <5>. QED BY <4>1, <4>2, <5>2
      <4>3. CASE po[t] \notin Pools
        BY <4>1, <4>3
      <4>. QED BY <4>2, <4>3
    <3>2. hash' \in [Names -> Pools \cup {Null}]
      BY <2>4 DEF Unname, HashWithout
    <3>. QED BY <2>4, <3>1, <3>2 DEF Unname, Lk!Leave
  <2>5. CASE ReleaseAllPool(t)
    <3>1. up' = FALSE /\ Lk!Leave(t) /\ Return(t)
      BY <2>5 DEF ReleaseAllPool, TakenDown, NoTable
    <3>. QED BY <2>5, <3>1 DEF ReleaseAllPool, Lk!Leave, Return
  <2>6. CASE UseNull(t)
    BY <2>6 DEF UseNull, Return
  <2>7. CASE GetArea(t)
    BY <2>7 DEF GetArea, Using
  <2>8. CASE Link(t)
    <3>1. pool' \in [Pools -> {Free} \cup PoolRecord]
      BY <2>8, HeadChanged DEF Link
    <3>. QED BY <2>8, <3>1 DEF Link, Return
  <2>9. CASE ReleaseArea(t)
    BY <2>9 DEF ReleaseArea, Using, Return
  <2>10. CASE ReleasePool(t)
    BY <2>10 DEF ReleasePool, Using
  <2>11. CASE SweepArea(t)
    BY <2>11 DEF SweepArea
  <2>12. CASE FreePool(t)
    <3>1. Return(t)
      BY <2>12 DEF FreePool
    <3>2. pool' \in [Pools -> {Free} \cup PoolRecord]
      BY <2>12 DEF FreePool
    <3>. QED BY <2>12, <3>1, <3>2 DEF FreePool, Return
  <2>13. CASE GoWild(t)
    BY <2>13 DEF GoWild, Using
  <2>. QED BY <1>2, <2>1, <2>2, <2>3, <2>4, <2>5, <2>6, <2>7, <2>8, <2>9, <2>10, <2>11, <2>12, <2>13 DEF Run
<1>3. ASSUME NEW t \in Threads, Client(t)
      PROVE  Typed'
  <2>1. ASSUME NEW n \in Names, CallNewPool(t, n)
        PROVE  Typed'
    BY <2>1 DEF CallNewPool, Begin, TableUsable
  <2>2. ASSUME NEW p \in Pools, NewPoolUnnamed(t, p)
        PROVE  Typed'
    BY <2>2 DEF NewPoolUnnamed
  <2>3. ASSUME NEW op \in ByName, NEW n \in Names, NEW a \in Areas \cup {Null}, CallByName(t, op, n, a)
        PROVE  Typed'
    BY <2>3 DEF CallByName, Begin, TableUsable
  <2>4. ASSUME NEW op \in ByName, NEW p \in Pools, NEW a \in Areas \cup {Null}, CallByPool(t, op, p, a)
        PROVE  Typed'
    BY <2>4 DEF CallByPool, Begin
  <2>5. ASSUME NEW a \in Areas, SetFinalizer(t, a)
        PROVE  Typed'
    BY <2>5 DEF SetFinalizer
  <2>6. CASE CallReleaseAllPool(t)
    BY <2>6 DEF CallReleaseAllPool, Begin
  <2>7. CASE InitPool(t)
    BY <2>7 DEF InitPool
  <2>. QED BY <1>3, <2>1, <2>2, <2>3, <2>4, <2>5, <2>6, <2>7 DEF Client, ByName
<1>. QED BY <1>1, <1>2, <1>3 DEF Next

LEMMA CallStep ==
    ASSUME ~ReleaseAllNamed, Typed, CallAtPlace, TakenDown, [Next]_vars
    PROVE  CallAtPlace'
<1>. USE LockingPlaces, NullIsNoAddress DEF table, heap, local, client, lockVars, Goto, Typed, CallAtPlace, NoCall, ByName
<1>1. CASE UNCHANGED vars
  BY <1>1 DEF vars
<1>2. ASSUME NEW t \in Threads, Run(t)
      PROVE  CallAtPlace'
  <2>1. CASE LockWrite(t)
    BY <2>1 DEF LockWrite, Lk!QueueWriter, Lk!AdmitWriter, Lk!ReadersIn, Lk!WritersIn
  <2>2. CASE NewPoolNamed(t)
    BY <2>2 DEF NewPoolNamed, Taken, Lk!Leave, Return
  <2>3. CASE GetPool(t)
    BY <2>3 DEF GetPool, Lk!Leave
  <2>4. CASE Unname(t)
    BY <2>4 DEF Unname, Lk!Leave, HashWithout, FreedName
  <2>5. CASE ReleaseAllPool(t)
    <3>1. Return(t) /\ UNCHANGED hash
      BY <2>5 DEF ReleaseAllPool, TakenDown, NoTable
    <3>. QED BY <2>5, <3>1 DEF ReleaseAllPool, Return
  <2>6. CASE UseNull(t)
    BY <2>6 DEF UseNull, Return
  <2>7. CASE GetArea(t)
    BY <2>7 DEF GetArea, Using
  <2>8. CASE Link(t)
    BY <2>8 DEF Link, Return
  <2>9. CASE ReleaseArea(t)
    BY <2>9 DEF ReleaseArea, Using, Return
  <2>10. CASE ReleasePool(t)
    BY <2>10 DEF ReleasePool, Using
  <2>11. CASE SweepArea(t)
    BY <2>11 DEF SweepArea
  <2>12. CASE FreePool(t)
    BY <2>12 DEF FreePool, Return
  <2>13. CASE GoWild(t)
    BY <2>13 DEF GoWild, Using
  <2>. QED BY <1>2, <2>1, <2>2, <2>3, <2>4, <2>5, <2>6, <2>7, <2>8, <2>9, <2>10, <2>11, <2>12, <2>13 DEF Run
<1>3. ASSUME NEW t \in Threads, Client(t)
      PROVE  CallAtPlace'
  <2>1. ASSUME NEW n \in Names, CallNewPool(t, n)
        PROVE  CallAtPlace'
    BY <2>1 DEF CallNewPool, Begin, TableUsable
  <2>2. ASSUME NEW p \in Pools, NewPoolUnnamed(t, p)
        PROVE  CallAtPlace'
    BY <2>2 DEF NewPoolUnnamed
  <2>3. ASSUME NEW op \in ByName, NEW n \in Names, NEW a \in Areas \cup {Null}, CallByName(t, op, n, a)
        PROVE  CallAtPlace'
    BY <2>3 DEF CallByName, Begin, TableUsable
  <2>4. ASSUME NEW op \in ByName, NEW p \in Pools, NEW a \in Areas \cup {Null}, CallByPool(t, op, p, a)
        PROVE  CallAtPlace'
    BY <2>4 DEF CallByPool, Begin
  <2>5. ASSUME NEW a \in Areas, SetFinalizer(t, a)
        PROVE  CallAtPlace'
    BY <2>5 DEF SetFinalizer
  <2>6. CASE CallReleaseAllPool(t)
    BY <2>6 DEF CallReleaseAllPool, Begin
  <2>7. CASE InitPool(t)
    BY <2>7 DEF InitPool
  <2>. QED BY <1>3, <2>1, <2>2, <2>3, <2>4, <2>5, <2>6, <2>7 DEF Client, ByName
<1>. QED BY <1>1, <1>2, <1>3 DEF Next

LEMMA LockStep ==
    ASSUME Typed, CallAtPlace, LockHeldInside, TakenDown, ReleasedByOne, [Next]_vars
    PROVE  LockHeldInside'
<1>. USE CriticalPlaces, LockingPlaces, NullIsNoAddress DEF table, heap, local, client, lockVars, Goto, Typed, LockHeldInside, Critical
<1>1. CASE UNCHANGED vars
  BY <1>1 DEF vars
<1>2. ASSUME NEW t \in Threads, Run(t)
      PROVE  LockHeldInside'
  <2>1. CASE LockWrite(t)
    BY <2>1 DEF LockWrite, Lk!QueueWriter, Lk!AdmitWriter, Lk!ReadersIn, Lk!WritersIn
  <2>2. CASE NewPoolNamed(t)
    BY <2>2 DEF NewPoolNamed, Taken, Lk!Leave, Return
  <2>3. CASE GetPool(t)
    BY <2>3 DEF GetPool, Lk!Leave
  <2>4. CASE Unname(t)
    BY <2>4 DEF Unname, Lk!Leave, HashWithout, FreedName
  <2>5. CASE ReleaseAllPool(t)
    <3>1. Lk!Leave(t) /\ Return(t)
      BY <2>5 DEF ReleaseAllPool, TakenDown, NoTable, CallAtPlace
    <3>. QED BY <2>5, <3>1 DEF ReleaseAllPool, Lk!Leave, Return
  <2>6. CASE UseNull(t)
    BY <2>6 DEF UseNull, Return
  <2>7. CASE GetArea(t)
    BY <2>7 DEF GetArea, Using
  <2>8. CASE Link(t)
    BY <2>8 DEF Link, Return
  <2>9. CASE ReleaseArea(t)
    BY <2>9 DEF ReleaseArea, Using, Return
  <2>10. CASE ReleasePool(t)
    BY <2>10 DEF ReleasePool, Using
  <2>11. CASE SweepArea(t)
    BY <2>11 DEF SweepArea
  <2>12. CASE FreePool(t)
    <3>1. Return(t)
      BY <2>12 DEF FreePool, CallAtPlace
    <3>. QED BY <2>12, <3>1 DEF FreePool, Return
  <2>13. CASE GoWild(t)
    <3>1. pc[t] # "unname"
      BY <2>13 DEF GoWild, Using, CallAtPlace, ReleasedByOne, Releasing, Target
    <3>2. pc[t] \notin Critical
      BY <2>13, <3>1 DEF GoWild, Using
    <3>. QED BY <2>13, <3>2 DEF GoWild
  <2>. QED BY <1>2, <2>1, <2>2, <2>3, <2>4, <2>5, <2>6, <2>7, <2>8, <2>9, <2>10, <2>11, <2>12, <2>13 DEF Run
<1>3. ASSUME NEW t \in Threads, Client(t)
      PROVE  LockHeldInside'
  <2>1. ASSUME NEW n \in Names, CallNewPool(t, n)
        PROVE  LockHeldInside'
    BY <2>1 DEF CallNewPool, Begin, TableUsable
  <2>2. ASSUME NEW p \in Pools, NewPoolUnnamed(t, p)
        PROVE  LockHeldInside'
    BY <2>2 DEF NewPoolUnnamed
  <2>3. ASSUME NEW op \in ByName, NEW n \in Names, NEW a \in Areas \cup {Null}, CallByName(t, op, n, a)
        PROVE  LockHeldInside'
    BY <2>3 DEF CallByName, Begin, TableUsable
  <2>4. ASSUME NEW op \in ByName, NEW p \in Pools, NEW a \in Areas \cup {Null}, CallByPool(t, op, p, a)
        PROVE  LockHeldInside'
    BY <2>4 DEF CallByPool, Begin
  <2>5. ASSUME NEW a \in Areas, SetFinalizer(t, a)
        PROVE  LockHeldInside'
    BY <2>5 DEF SetFinalizer
  <2>6. CASE CallReleaseAllPool(t)
    BY <2>6 DEF CallReleaseAllPool, Begin
  <2>7. CASE InitPool(t)
    BY <2>7 DEF InitPool
  <2>. QED BY <1>3, <2>1, <2>2, <2>3, <2>4, <2>5, <2>6, <2>7 DEF Client, ByName
<1>. QED BY <1>1, <1>2, <1>3 DEF Next

LEMMA TakenDownStep ==
    ASSUME ~ReleaseAllNamed, Typed, CallAtPlace, TakenDown, [Next]_vars
    PROVE  TakenDown'
<1>. USE LockingPlaces, NullIsNoAddress DEF table, heap, local, client, lockVars, Goto, Typed, TakenDown, NoTable, CallAtPlace, NoCall, ByName
<1>1. CASE UNCHANGED vars
  BY <1>1 DEF vars
<1>2. ASSUME NEW t \in Threads, Run(t)
      PROVE  TakenDown'
  <2>1. CASE LockWrite(t)
    BY <2>1 DEF LockWrite, Lk!QueueWriter, Lk!AdmitWriter, Lk!ReadersIn, Lk!WritersIn
  <2>2. CASE NewPoolNamed(t)
    BY <2>2 DEF NewPoolNamed, Taken, Lk!Leave, Return
  <2>3. CASE GetPool(t)
    BY <2>3 DEF GetPool, Lk!Leave
  <2>4. CASE Unname(t)
    BY <2>4 DEF Unname, Lk!Leave, HashWithout, FreedName
  <2>5. CASE ReleaseAllPool(t)
    BY <2>5 DEF ReleaseAllPool, Lk!Leave, Return
  <2>6. CASE UseNull(t)
    BY <2>6 DEF UseNull, Return
  <2>7. CASE GetArea(t)
    BY <2>7 DEF GetArea, Using
  <2>8. CASE Link(t)
    BY <2>8 DEF Link, Return
  <2>9. CASE ReleaseArea(t)
    BY <2>9 DEF ReleaseArea, Using, Return
  <2>10. CASE ReleasePool(t)
    BY <2>10 DEF ReleasePool, Using
  <2>11. CASE SweepArea(t)
    BY <2>11 DEF SweepArea
  <2>12. CASE FreePool(t)
    BY <2>12 DEF FreePool, Return
  <2>13. CASE GoWild(t)
    BY <2>13 DEF GoWild, Using
  <2>. QED BY <1>2, <2>1, <2>2, <2>3, <2>4, <2>5, <2>6, <2>7, <2>8, <2>9, <2>10, <2>11, <2>12, <2>13 DEF Run
<1>3. ASSUME NEW t \in Threads, Client(t)
      PROVE  TakenDown'
  <2>1. ASSUME NEW n \in Names, CallNewPool(t, n)
        PROVE  TakenDown'
    BY <2>1 DEF CallNewPool, Begin, TableUsable
  <2>2. ASSUME NEW p \in Pools, NewPoolUnnamed(t, p)
        PROVE  TakenDown'
    BY <2>2 DEF NewPoolUnnamed
  <2>3. ASSUME NEW op \in ByName, NEW n \in Names, NEW a \in Areas \cup {Null}, CallByName(t, op, n, a)
        PROVE  TakenDown'
    BY <2>3 DEF CallByName, Begin, TableUsable
  <2>4. ASSUME NEW op \in ByName, NEW p \in Pools, NEW a \in Areas \cup {Null}, CallByPool(t, op, p, a)
        PROVE  TakenDown'
    BY <2>4 DEF CallByPool, Begin
  <2>5. ASSUME NEW a \in Areas, SetFinalizer(t, a)
        PROVE  TakenDown'
    BY <2>5 DEF SetFinalizer
  <2>6. CASE CallReleaseAllPool(t)
    BY <2>6 DEF CallReleaseAllPool, Begin
  <2>7. CASE InitPool(t)
    BY <2>7 DEF InitPool
  <2>. QED BY <1>3, <2>1, <2>2, <2>3, <2>4, <2>5, <2>6, <2>7 DEF Client, ByName
<1>. QED BY <1>1, <1>2, <1>3 DEF Next

LEMMA TableStep ==
    ASSUME Typed, CallAtPlace, TableInv, [Next]_vars
    PROVE  TableAgrees'
<1>. USE LockingPlaces, NullIsNoAddress, FreeIsNoPool DEF table, heap, local, client, lockVars, Goto, Typed, PoolRecord, TableInv, TableAgrees
<1>1. CASE UNCHANGED vars
  BY <1>1 DEF vars
<1>2. ASSUME NEW t \in Threads, Run(t)
      PROVE  TableAgrees'
  <2>1. CASE LockWrite(t)
    BY <2>1 DEF LockWrite, Lk!QueueWriter, Lk!AdmitWriter, Lk!ReadersIn, Lk!WritersIn
  <2>2. CASE NewPoolNamed(t)
    <3>1. CASE Taken(call[t].name)
      BY <2>2, <3>1 DEF NewPoolNamed
    <3>2. CASE ~Taken(call[t].name)
      <4>. PICK p \in Pools : /\ pool[p] = Free
                              /\ pool' = [pool EXCEPT ![p] = [name |-> call[t].name, head |-> Null]]
                              /\ hash' = [hash EXCEPT ![call[t].name] = p]
        BY <2>2, <3>2 DEF NewPoolNamed
      <4>1. call[t].name \in Names /\ hash[call[t].name] = Null
        BY <2>2, <3>2 DEF NewPoolNamed, Taken, CallAtPlace
      <4>2. pool'[p] = [name |-> call[t].name, head |-> Null] /\ pool'[p] # Free
            /\ \A q \in Pools \ {p} : pool'[q] = pool[q]
        BY <4>1
      <4>. QED BY <4>1, <4>2
    <3>. QED BY <3>1, <3>2
  <2>3. CASE GetPool(t)
    BY <2>3 DEF GetPool, Lk!Leave
  <2>4. CASE Unname(t)
    <3>1. po[t] \in Pools
      BY <2>4 DEF Unname, ReleasedByOne, Releasing, Target, CallAtPlace
    <3>2. pool'[po[t]].name = Null /\ \A q \in Pools \ {po[t]} : pool'[q] = pool[q]
      BY <2>4, <3>1, NameRemoved DEF Unname, FreedName
    <3>3. \A n \in Names : hash'[n] = IF n = pool[po[t]].name THEN Null ELSE hash[n]
      BY <2>4 DEF Unname, HashWithout
    <3>4. pool[po[t]] # Free
      BY <2>4 DEF Unname
    <3>. QED BY <3>1, <3>2, <3>3, <3>4
  <2>5. CASE ReleaseAllPool(t)
    BY <2>5 DEF ReleaseAllPool, Lk!Leave, Return
  <2>6. CASE UseNull(t)
    BY <2>6 DEF UseNull, Return
  <2>7. CASE GetArea(t)
    BY <2>7 DEF GetArea, Using
  <2>8. CASE Link(t)
    <3>1. pool[po[t]] # Free /\ rp[t] \in Areas /\ po[t] \in Pools
      BY <2>8 DEF Link, CallAtPlace
    <3>2. pool'[po[t]].name = pool[po[t]].name /\ pool'[po[t]] # Free
      BY <2>8, <3>1, HeadChanged DEF Link
    <3>3. \A q \in Pools \ {po[t]} : pool'[q] = pool[q]
      BY <2>8 DEF Link
    <3>4. UNCHANGED hash
      BY <2>8 DEF Link
    <3>. QED BY <3>1, <3>2, <3>3, <3>4
  <2>9. CASE ReleaseArea(t)
    BY <2>9 DEF ReleaseArea, Using, Return
  <2>10. CASE ReleasePool(t)
    BY <2>10 DEF ReleasePool, Using
  <2>11. CASE SweepArea(t)
    BY <2>11 DEF SweepArea
  <2>12. CASE FreePool(t)
    <3>1. po[t] \in Pools /\ pool[po[t]] # Free /\ pool[po[t]].name = Null
      BY <2>12 DEF FreePool, ReleasedByOne, Releasing, Target, CallAtPlace
    <3>2. pool' = [pool EXCEPT ![po[t]] = Free] /\ UNCHANGED hash
      BY <2>12 DEF FreePool
    <3>. QED BY <3>1, <3>2
  <2>13. CASE GoWild(t)
    BY <2>13 DEF GoWild, Using
  <2>. QED BY <1>2, <2>1, <2>2, <2>3, <2>4, <2>5, <2>6, <2>7, <2>8, <2>9, <2>10, <2>11, <2>12, <2>13 DEF Run
<1>3. ASSUME NEW t \in Threads, Client(t)
      PROVE  TableAgrees'
  <2>1. ASSUME NEW n \in Names, CallNewPool(t, n)
        PROVE  TableAgrees'
    BY <2>1 DEF CallNewPool, Begin, TableUsable
  <2>2. ASSUME NEW p \in Pools, NewPoolUnnamed(t, p)
        PROVE  TableAgrees'
    BY <2>2 DEF NewPoolUnnamed
  <2>3. ASSUME NEW op \in ByName, NEW n \in Names, NEW a \in Areas \cup {Null}, CallByName(t, op, n, a)
        PROVE  TableAgrees'
    BY <2>3 DEF CallByName, Begin, TableUsable
  <2>4. ASSUME NEW op \in ByName, NEW p \in Pools, NEW a \in Areas \cup {Null}, CallByPool(t, op, p, a)
        PROVE  TableAgrees'
    BY <2>4 DEF CallByPool, Begin
  <2>5. ASSUME NEW a \in Areas, SetFinalizer(t, a)
        PROVE  TableAgrees'
    BY <2>5 DEF SetFinalizer
  <2>6. CASE CallReleaseAllPool(t)
    BY <2>6 DEF CallReleaseAllPool, Begin
  <2>7. CASE InitPool(t)
    <3>1. \A n \in Names : hash'[n] = hash[n]
      BY <2>7 DEF InitPool, TakenDown, NoTable
    <3>. QED BY <2>7, <3>1 DEF InitPool
  <2>. QED BY <1>3, <2>1, <2>2, <2>3, <2>4, <2>5, <2>6, <2>7 DEF Client, ByName
<1>. QED BY <1>1, <1>2, <1>3 DEF Next

LEMMA ReleaseStep ==
    ASSUME Typed, CallAtPlace, TableInv, [Next]_vars
    PROVE  ReleasedByOne'
<1>. USE LockingPlaces, NullIsNoAddress, FreeIsNoPool DEF table, heap, local, client, lockVars, Goto, Typed, PoolRecord, TableInv, TableAgrees, ReleasedByOne, Releasing, Target, CallAtPlace, NoCall, ByName
<1>1. CASE UNCHANGED vars
  BY <1>1 DEF vars
<1>2. ASSUME NEW t \in Threads, Run(t)
      PROVE  ReleasedByOne'
  <2>1. CASE LockWrite(t)
    BY <2>1 DEF LockWrite, Lk!QueueWriter, Lk!AdmitWriter, Lk!ReadersIn, Lk!WritersIn
  <2>2. CASE NewPoolNamed(t)
    <3>1. CASE Taken(call[t].name)
      BY <2>2, <3>1 DEF NewPoolNamed, Return
    <3>2. CASE ~Taken(call[t].name)
      <4>. PICK p \in Pools : /\ pool[p] = Free
                              /\ pool' = [pool EXCEPT ![p] = [name |-> call[t].name, head |-> Null]]
                              /\ hash' = [hash EXCEPT ![call[t].name] = p]
                              /\ user' = [user EXCEPT ![p] = t]
        BY <2>2, <3>2 DEF NewPoolNamed
      <4>1. call[t].name \in Names /\ hash[call[t].name] = Null
        BY <2>2, <3>2 DEF NewPoolNamed, Taken
      <4>2. pool'[p] = [name |-> call[t].name, head |-> Null] /\ pool'[p] # Free
            /\ \A q \in Pools \ {p} : pool'[q] = pool[q] /\ user'[q] = user[q]
        BY <4>1
      <4>3. \A u \in Threads \ {t} : UNCHANGED <<pc[u], call[u], po[u]>>
        BY <2>2 DEF NewPoolNamed, Return
      <4>4. ~Releasing(t) /\ ~Releasing(t)'
        BY <2>2 DEF NewPoolNamed, Return
      <4>5. \A u \in Threads : Releasing(u)' =>
              /\ u # t /\ Releasing(u) /\ Target(u)' = Target(u) /\ Target(u) # p
        BY <4>1, <4>3, <4>4
      <4>6. \A u \in Threads : Releasing(u)' => pool'[Target(u)] = pool[Target(u)]
                                             /\ user'[Target(u)] = user[Target(u)]
        BY <4>2, <4>5
      <4>. QED BY <4>2, <4>3, <4>5, <4>6
    <3>. QED BY <3>1, <3>2
  <2>3. CASE GetPool(t)
    BY <2>3 DEF GetPool, Lk!Leave
  <2>4. CASE Unname(t)
    <3>1. Releasing(t) /\ Target(t) = po[t] /\ po[t] \in Pools /\ pool[po[t]] # Free
      BY <2>4 DEF Unname
    <3>2. pool'[po[t]].name = Null /\ pool'[po[t]] # Free
          /\ \A q \in Pools \ {po[t]} : pool'[q] = pool[q]
      BY <2>4, <3>1, NameRemoved DEF Unname, FreedName
    <3>3. \A n \in Names : hash'[n] = IF n = pool[po[t]].name THEN Null ELSE hash[n]
      BY <2>4 DEF Unname, HashWithout
    <3>4. /\ \A u \in Threads \ {t} : UNCHANGED <<pc[u], call[u], po[u]>>
          /\ pc'[t] = "use" /\ UNCHANGED <<call, po, user>>
      BY <2>4 DEF Unname
    <3>5. \A u \in Threads : Releasing(u)' => Releasing(u) /\ Target(u)' = Target(u)
      <4>. SUFFICES ASSUME NEW u \in Threads, Releasing(u)'
                    PROVE  Releasing(u) /\ Target(u)' = Target(u)
        OBVIOUS
      <4>1. CASE u = t
        BY <3>1, <3>4, <4>1
      <4>2. CASE u # t
        <5>1. Releasing(u) /\ Target(u) # po[t]
          BY <3>1, <3>4, <4>2
        <5>2. CASE pc[u] \in {"wantGet", "get"}
          <6>1. call[u].name \in Names /\ hash[call[u].name] # po[t]
                /\ hash[call[u].name] \in Pools
            BY <5>1, <5>2
          <6>2. call[u].name # pool[po[t]].name
            BY <3>1, <6>1
          <6>. QED BY <3>3, <3>4, <4>2, <5>1, <5>2, <6>1, <6>2
        <5>3. CASE pc[u] \notin {"wantGet", "get"}
          BY <3>4, <4>2, <5>1, <5>3
        <5>. QED BY <5>2, <5>3
      <4>. QED BY <4>1, <4>2
    <3>6. \A q \in Pools : pool[q] # Free => pool'[q] # Free
      BY <3>2
    <3>7. \A u \in Threads : Releasing(u)' /\ pc'[u] = "sweep" => u # t /\ pool'[po[u]].name = Null
      BY <3>2, <3>4, <3>5
    <3>. QED BY <3>4, <3>5, <3>6, <3>7
  <2>5. CASE ReleaseAllPool(t)
    BY <2>5 DEF ReleaseAllPool, Lk!Leave, Return
  <2>6. CASE UseNull(t)
    BY <2>6 DEF UseNull, Return
  <2>7. CASE GetArea(t)
    BY <2>7 DEF GetArea, Using
  <2>8. CASE Link(t)
    <3>1. pool[po[t]] # Free /\ rp[t] \in Areas /\ po[t] \in Pools
      BY <2>8 DEF Link
    <3>2. pool'[po[t]].name = pool[po[t]].name /\ pool'[po[t]] # Free
          /\ \A q \in Pools \ {po[t]} : pool'[q] = pool[q]
      BY <2>8, <3>1, HeadChanged DEF Link
    <3>3. /\ \A u \in Threads \ {t} : UNCHANGED <<pc[u], call[u], po[u]>>
          /\ ~Releasing(t) /\ ~Releasing(t)' /\ UNCHANGED <<user, hash>>
      BY <2>8 DEF Link, Return
    <3>4. \A u \in Threads : Releasing(u)' => Releasing(u) /\ Target(u)' = Target(u) /\ u # t
      BY <3>3
    <3>. QED BY <3>1, <3>2, <3>3, <3>4
  <2>9. CASE ReleaseArea(t)
    BY <2>9 DEF ReleaseArea, Using, Return
  <2>10. CASE ReleasePool(t)
    BY <2>10 DEF ReleasePool, Using
  <2>11. CASE SweepArea(t)
    BY <2>11 DEF SweepArea
  <2>12. CASE FreePool(t)
    <3>1. Releasing(t) /\ Target(t) = po[t] /\ po[t] \in Pools /\ user[po[t]] = Null
      BY <2>12 DEF FreePool
    <3>2. Return(t)
      BY <2>12, <3>1 DEF FreePool
    <3>3. /\ \A u \in Threads \ {t} : UNCHANGED <<pc[u], call[u], po[u]>>
          /\ ~Releasing(t)' /\ UNCHANGED <<user, hash>>
          /\ \A q \in Pools \ {po[t]} : pool'[q] = pool[q]
      BY <2>12, <3>2 DEF FreePool, Return
    <3>4. \A u \in Threads : Releasing(u)' =>
            Releasing(u) /\ Target(u)' = Target(u) /\ u # t /\ Target(u) # po[t]
      BY <3>1, <3>3
    <3>. QED BY <3>1, <3>3, <3>4
  <2>13. CASE GoWild(t)
    BY <2>13 DEF GoWild, Using
  <2>. QED BY <1>2, <2>1, <2>2, <2>3, <2>4, <2>5, <2>6, <2>7, <2>8, <2>9, <2>10, <2>11, <2>12, <2>13 DEF Run
<1>3. ASSUME NEW t \in Threads, Client(t)
      PROVE  ReleasedByOne'
  <2>1. ASSUME NEW n \in Names, CallNewPool(t, n)
        PROVE  ReleasedByOne'
    BY <2>1 DEF CallNewPool, Begin, TableUsable
  <2>2. ASSUME NEW p \in Pools, NewPoolUnnamed(t, p)
        PROVE  ReleasedByOne'
    BY <2>2 DEF NewPoolUnnamed
  <2>3. ASSUME NEW op \in ByName, NEW n \in Names, NEW a \in Areas \cup {Null}, CallByName(t, op, n, a)
        PROVE  ReleasedByOne'
    <3>1. /\ \A u \in Threads \ {t} : UNCHANGED <<pc[u], call[u], po[u]>>
          /\ UNCHANGED <<pool, hash>> /\ pc[t] = "idle" /\ pc'[t] = "wantGet"
          /\ call'[t] = [op |-> op, name |-> n, area |-> a]
      BY <2>3 DEF CallByName, Begin
    <3>2. user' = [p \in Pools |-> IF op = "ReleasePool" /\ p = hash[n] THEN Null ELSE user[p]]
      BY <2>3 DEF CallByName
    <3>3. \A u \in Threads \ {t} : Releasing(u)' = Releasing(u) /\ Target(u)' = Target(u)
      BY <3>1
    <3>4. CASE op = "ReleasePool"
      <4>1. PICK p \in Pools : user[p] = t /\ pool[p].name = n
        BY <2>3, <3>4 DEF CallByName, MayUse
      <4>2. pool[p] # Free /\ hash[n] = p /\ Target(t)' = p
        BY <3>1, <4>1
      <4>3. \A u \in Threads \ {t} : Releasing(u) => Target(u) # p
        BY <4>1
      <4>4. \A q \in Pools : user'[q] # Null => user[q] # Null /\ q # p
        BY <3>2, <3>4, <4>2
      <4>5. user'[p] = Null
        BY <3>2, <3>4, <4>2
      <4>6. \A u \in Threads \ {t} : Releasing(u)' =>
              Target(u)' \in Pools /\ pool'[Target(u)'] # Free /\ user'[Target(u)'] = Null
        BY <3>1, <3>3, <4>4
      <4>7. \A u \in Threads : Releasing(u)' /\ Target(u)' = p => u = t
        BY <3>3, <4>3
      <4>8. \A u, v \in Threads \ {t} :
              Releasing(u)' /\ Releasing(v)' /\ Target(u)' = Target(v)' => u = v
        BY <3>3
      <4>9. \A u, v \in Threads :
              Releasing(u)' /\ Releasing(v)' /\ Target(u)' = Target(v)' => u = v
        BY <4>2, <4>7, <4>8
      <4>10. \A u \in Threads : pc'[u] = "sweep" /\ Releasing(u)' => pool'[po'[u]].name = Null
        BY <3>1
      <4>11. \A u \in Threads : Releasing(u)' =>
              Target(u)' \in Pools /\ pool'[Target(u)'] # Free /\ user'[Target(u)'] = Null
        BY <3>1, <4>2, <4>5, <4>6
      <4>12. \A q \in Pools : user'[q] # Null => pool'[q] # Free
        BY <3>1, <4>4
      <4>. QED BY <4>9, <4>10, <4>11, <4>12
    <3>5. CASE op # "ReleasePool"
      <4>1. ~Releasing(t)'
        BY <3>1, <3>5
      <4>2. \A q \in Pools : user'[q] = user[q]
        BY <3>2, <3>5
      <4>. QED BY <3>1, <3>3, <4>1, <4>2
    <3>. QED BY <3>4, <3>5
  <2>4. ASSUME NEW op \in ByName, NEW p \in Pools, NEW a \in Areas \cup {Null}, CallByPool(t, op, p, a)
        PROVE  ReleasedByOne'
    BY <2>4 DEF CallByPool, Begin
  <2>5. ASSUME NEW a \in Areas, SetFinalizer(t, a)
        PROVE  ReleasedByOne'
    BY <2>5 DEF SetFinalizer
  <2>6. CASE CallReleaseAllPool(t)
    BY <2>6 DEF CallReleaseAllPool, Begin
  <2>7. CASE InitPool(t)
    <3>1. \A n \in Names : hash'[n] = hash[n]
      BY <2>7 DEF InitPool, TakenDown, NoTable
    <3>. QED BY <2>7, <3>1 DEF InitPool
  <2>. QED BY <1>3, <2>1, <2>2, <2>3, <2>4, <2>5, <2>6, <2>7 DEF Client, ByName
<1>. QED BY <1>1, <1>2, <1>3 DEF Next

-----------------------------------------------------------------------------
LEMMA Inductive == ASSUME ~ReleaseAllNamed PROVE Spec => []IInv
<1>1. Init => IInv
  BY InitTyped, InitRest DEF IInv
<1>2. IInv /\ [Next]_vars => IInv'
  BY TypedStep, CallStep, LockStep, TakenDownStep, TableStep, ReleaseStep DEF IInv, TableInv
<1>. QED BY <1>1, <1>2, PTL DEF Spec

\* In every interleaving of any number of threads, sharing pools or not, the
\* table and the pools agree: a name leads to the one allocated pool that has it
\* (memory.c:184-228), although a pool is swept and freed under no lock.
THEOREM TableAlwaysAgrees == ASSUME ~ReleaseAllNamed PROVE Spec => []TableAgrees
<1>1. IInv => TableAgrees
  BY DEF IInv, TableInv
<1>. QED BY <1>1, Inductive, PTL

\* The users of the table's lock keep its rule: one at a time, and whoever
\* holds it is in a critical section (memory.c:112-119, 184-251).
THEOREM LockIsHeldInside == ASSUME ~ReleaseAllNamed PROVE Spec => []LockHeldInside
<1>1. IInv => LockHeldInside
  BY DEF IInv
<1>. QED BY <1>1, Inductive, PTL

\* No two threads ever release one pool, and a pool is swept only after its name
\* is gone: what makes freeing it without the lock safe for the table.
THEOREM PoolsAreReleasedByOne == ASSUME ~ReleaseAllNamed PROVE Spec => []ReleasedByOne
<1>1. IInv => ReleasedByOne
  BY DEF IInv, TableInv
<1>. QED BY <1>1, Inductive, PTL

-----------------------------------------------------------------------------
(* The areas on a list *)

\* What the areas of T lead to.
NextOf(T) == {area[b].next : b \in {c \in T : Live(c)}} \ {Null}

\* f[k] holds what is reached from a in at most k steps.
Walk(a, n, f) ==
  f = [k \in 0..n |-> IF k = 0 THEN {a} \ {Null} ELSE f[k-1] \cup NextOf(f[k-1])]

\* There is such a function: the one for n - 1 steps, and one step more.
LEMMA WalkExists ==
  ASSUME NEW a, NEW n \in Nat
  PROVE  \E f : Walk(a, n, f)
<1> DEFINE T == {k \in Nat : ~\E f : Walk(a, k, f)}
<1>1. SUFFICES ASSUME T # {} PROVE FALSE
  OBVIOUS
<1>2. PICK m \in T : \A k \in T : m <= k
  <2>1. T \subseteq Nat
    OBVIOUS
  <2> HIDE DEF T
  <2> QED BY <1>1, <2>1, LeastElement
<1>3. m \in Nat /\ ~\E f : Walk(a, m, f)
  OBVIOUS
<1>4. CASE m = 0
  <2> DEFINE f == [k \in 0..0 |-> {a} \ {Null}]
  <2>1. Walk(a, 0, f)
    <3>1. \A k \in 0..0 : k = 0
      OBVIOUS
    <3> QED BY <3>1 DEF Walk
  <2> QED BY <2>1, <1>3, <1>4
<1>5. CASE m # 0
  <2>1. m-1 \in Nat /\ m-1 < m /\ m-1 \notin T
    BY <1>2, <1>3, <1>5
  <2>2. PICK f : Walk(a, m-1, f)
    BY <2>1
  <2> DEFINE g == [k \in 0..m |-> IF k = m THEN f[m-1] \cup NextOf(f[m-1]) ELSE f[k]]
  <2>3. \A k \in 0..m : g[k] = IF k = 0 THEN {a} \ {Null} ELSE g[k-1] \cup NextOf(g[k-1])
    <3>0. SUFFICES ASSUME NEW k \in 0..m
                   PROVE  g[k] = IF k = 0 THEN {a} \ {Null} ELSE g[k-1] \cup NextOf(g[k-1])
      OBVIOUS
    <3>1. CASE k = m
      <4>1. k-1 \in 0..m /\ k-1 # m /\ k # 0
        BY <3>1, <1>3, <1>5
      <4>2. g[k-1] = f[m-1]
        BY <3>1, <4>1
      <4>3. g[k] = f[m-1] \cup NextOf(f[m-1])
        BY <3>1
      <4> HIDE DEF g
      <4> QED BY <4>1, <4>2, <4>3
    <3>2. CASE k # m
      <4>1. k \in 0..m-1
        BY <3>2, <1>3
      <4>2. f[k] = IF k = 0 THEN {a} \ {Null} ELSE f[k-1] \cup NextOf(f[k-1])
        BY <2>2, <4>1 DEF Walk
      <4>3. g[k] = f[k]
        BY <3>2
      <4>4. k # 0 => g[k-1] = f[k-1]
        BY <4>1, <1>3
      <4> HIDE DEF g
      <4> QED BY <4>2, <4>3, <4>4
    <3> QED BY <3>1, <3>2
  <2>4. g = [k \in 0..m |-> g[k]]
    OBVIOUS
  <2> HIDE DEF g
  <2>5. Walk(a, m, g)
    BY <2>3, <2>4 DEF Walk
  <2> QED BY <2>5, <1>3
<1> QED BY <1>4, <1>5

\* ListFrom is the last of the sets such a function goes through.
LEMMA ListIsWalked ==
  ASSUME NEW a, IsFiniteSet(Areas), NEW N, N = Cardinality(Areas)
  PROVE  \E f : /\ ListFrom(a) = f[N]
                /\ f[0] = {a} \ {Null}
                /\ \A k \in 1..N : f[k] = f[k-1] \cup NextOf(f[k-1])
<1> DEFINE f == CHOOSE r : Walk(a, N, r)
<1>1. N \in Nat
  BY FS_CardinalityType
<1>2. Walk(a, N, f)
  BY <1>1, WalkExists
<1>3. ListFrom(a) = f[N]
  BY DEF ListFrom, Walk, NextOf
<1> HIDE DEF f
<1>4. \A k \in 0..N : f[k] = IF k = 0 THEN {a} \ {Null} ELSE f[k-1] \cup NextOf(f[k-1])
  BY <1>2 DEF Walk
<1>5. f[0] = {a} \ {Null} /\ \A k \in 1..N : f[k] = f[k-1] \cup NextOf(f[k-1])
  <2>1. 0 \in 0..N /\ \A k \in 1..N : k \in 0..N /\ k # 0
    BY <1>1
  <2> QED BY <2>1, <1>4
<1> QED BY <1>3, <1>5

\* A list has nothing but what leads from its first area to the next ones.
LEMMA ListWithin ==
  ASSUME NEW a, IsFiniteSet(Areas), NEW T, a # Null => a \in T,
         \A b \in T : Live(b) /\ area[b].next # Null => area[b].next \in T
  PROVE  ListFrom(a) \subseteq T
<1> DEFINE N == Cardinality(Areas)
<1>1. N \in Nat
  BY FS_CardinalityType
<1>2. PICK f : /\ ListFrom(a) = f[N]
               /\ f[0] = {a} \ {Null}
               /\ \A k \in 1..N : f[k] = f[k-1] \cup NextOf(f[k-1])
  BY ListIsWalked
<1> HIDE DEF N
<1>3. f[0] = {a} \ {Null} /\ \A k \in 1..N : f[k] = f[k-1] \cup NextOf(f[k-1])
  BY <1>2
<1> DEFINE Bad == {k \in 0..N : ~(f[k] \subseteq T)}
<1>4. ASSUME Bad # {} PROVE FALSE
  <2>1. Bad \subseteq Nat
    OBVIOUS
  <2>2. PICK m \in Bad : \A k \in Bad : m <= k
    <3> HIDE DEF Bad
    <3> QED BY <1>4, <2>1, LeastElement
  <2>3. m \in 0..N /\ ~(f[m] \subseteq T)
    OBVIOUS
  <2>4. m # 0
    BY <1>3, <2>3
  <2>5. m \in 1..N /\ m-1 \in 0..N /\ m-1 < m
    BY <1>1, <2>3, <2>4
  <2>6. f[m-1] \subseteq T
    BY <2>2, <2>5
  <2>7. NextOf(f[m-1]) \subseteq T
    BY <2>6 DEF NextOf
  <2> QED BY <1>3, <2>3, <2>5, <2>6, <2>7
<1>5. N \in 0..N
  BY <1>1
<1> QED BY <1>2, <1>4, <1>5

\* What is reached in as many steps as there are areas is all there is: until
\* nothing new is reached, every step reaches one more.
LEMMA ListClosed ==
  ASSUME NEW a \in Areas, IsFiniteSet(Areas),
         \A b \in Areas : Live(b) => area[b].next \in Areas \cup {Null}
  PROVE  /\ a \in ListFrom(a)
         /\ \A b \in ListFrom(a) : Live(b) /\ area[b].next # Null => area[b].next \in ListFrom(a)
<1> DEFINE N == Cardinality(Areas)
<1>1. N \in Nat
  BY FS_CardinalityType
<1>2. PICK f : /\ ListFrom(a) = f[N]
               /\ f[0] = {a} \ {Null}
               /\ \A k \in 1..N : f[k] = f[k-1] \cup NextOf(f[k-1])
  BY ListIsWalked
<1>c. \A S \in SUBSET Areas : IsFiniteSet(S) /\ Cardinality(S) \in Nat /\ Cardinality(S) <= N
  BY FS_Subset, FS_CardinalityType
<1> HIDE DEF N
<1>a. a # Null
  BY NullIsNoAddress
<1>3. f[0] = {a} /\ \A k \in 1..N : f[k] = f[k-1] \cup NextOf(f[k-1])
  BY <1>2, <1>a
<1>4. \A k \in 0..N : f[k] \subseteq Areas /\ a \in f[k]
  <2> DEFINE Bad == {k \in 0..N : ~(f[k] \subseteq Areas /\ a \in f[k])}
  <2>1. SUFFICES ASSUME Bad # {} PROVE FALSE
    OBVIOUS
  <2>2. Bad \subseteq Nat
    OBVIOUS
  <2>3. PICK m \in Bad : \A k \in Bad : m <= k
    <3> HIDE DEF Bad
    <3> QED BY <2>1, <2>2, LeastElement
  <2>4. m \in 0..N /\ ~(f[m] \subseteq Areas /\ a \in f[m])
    OBVIOUS
  <2>5. m # 0
    BY <1>3, <2>4
  <2>6. m \in 1..N /\ m-1 \in 0..N /\ m-1 < m
    BY <1>1, <2>4, <2>5
  <2>7. f[m-1] \subseteq Areas /\ a \in f[m-1]
    BY <2>3, <2>6
  <2>8. NextOf(f[m-1]) \subseteq Areas
    BY <2>7 DEF NextOf
  <2> QED BY <1>3, <2>4, <2>6, <2>7, <2>8
<1> DEFINE Closed(k) == NextOf(f[k]) \subseteq f[k]
           Grown == {k \in 0..N : ~Closed(k)}
\* Once nothing new is reached it stays so.
<1>5. \A k \in 1..N : k \in Grown => k-1 \in Grown
  <2>1. SUFFICES ASSUME NEW k \in 1..N, Closed(k-1) PROVE Closed(k)
    <3>1. \A k \in 1..N : k-1 \in 0..N
      BY <1>1
    <3> HIDE DEF Closed
    <3> QED BY <3>1
  <2>2. f[k] = f[k-1]
    BY <1>3, <2>1
  <2> QED BY <2>1, <2>2
<1>6. ASSUME ~Closed(N) PROVE FALSE
  <2> DEFINE Stops == {k \in 0..N : Closed(N - k)}
  <2>1. \A k \in 0..N : ~Closed(k)
    <3>1. SUFFICES ASSUME Stops # {} PROVE FALSE
      <4>1. ASSUME NEW k \in 0..N, Closed(k) PROVE N - k \in Stops
        <5>1. N - k \in 0..N /\ N - (N - k) = k
          BY <1>1
        <5> HIDE DEF Closed
        <5> QED BY <4>1, <5>1
      <4> HIDE DEF Closed, Stops
      <4> QED BY <4>1
    <3>2. Stops \subseteq Nat
      OBVIOUS
    <3>3. PICK m \in Stops : \A k \in Stops : m <= k
      <4> HIDE DEF Stops
      <4> QED BY <3>1, <3>2, LeastElement
    <3>4. m \in 0..N /\ Closed(N - m)
      <4> HIDE DEF Closed
      <4> QED BY <3>3
    <3>5. m # 0
      <4>1. N - 0 = N
        BY <1>1
      <4> HIDE DEF Closed
      <4> QED BY <3>4, <1>6, <4>1
    <3>6. m-1 \in 0..N /\ m-1 < m /\ N - (m - 1) \in 1..N /\ N - (m - 1) - 1 = N - m
          /\ N - m \in 0..N /\ N - (m - 1) \in 0..N
      BY <1>1, <3>4, <3>5
    <3>7. ~Closed(N - (m - 1))
      <4>1. m-1 \notin Stops
        <5> HIDE DEF Stops
        <5> QED BY <3>3, <3>4, <3>6
      <4> HIDE DEF Closed
      <4> QED BY <4>1, <3>6
    <3>8. N - (m - 1) \in Grown
      <4> HIDE DEF Closed
      <4> QED BY <3>6, <3>7
    <3>9. N - m \in Grown
      <4> HIDE DEF Grown
      <4> QED BY <1>5, <3>6, <3>8
    <3> HIDE DEF Closed
    <3> QED BY <3>4, <3>9
  <2> DEFINE Bad == {k \in 0..N : ~(Cardinality(f[k]) >= k + 1)}
  <2>2. ASSUME Bad # {} PROVE FALSE
    <3>2. Bad \subseteq Nat
      OBVIOUS
    <3>3. PICK m \in Bad : \A k \in Bad : m <= k
      <4> HIDE DEF Bad
      <4> QED BY <2>2, <3>2, LeastElement
    <3>4. m \in 0..N /\ ~(Cardinality(f[m]) >= m + 1)
      OBVIOUS
    <3>5. m # 0
      <4>1. Cardinality({a}) = 1
        BY FS_Singleton
      <4> QED BY <4>1, <1>3, <3>4
    <3>6. m \in 1..N /\ m-1 \in 0..N /\ m-1 < m
      BY <1>1, <3>4, <3>5
    <3>7. Cardinality(f[m-1]) >= m
      <4>1. m-1 \notin Bad
        <5> HIDE DEF Bad
        <5> QED BY <3>3, <3>4, <3>6
      <4> QED BY <4>1, <3>6
    <3>8. f[m-1] \subseteq f[m] /\ f[m-1] # f[m]
      BY <1>3, <2>1, <3>6
    <3>9. IsFiniteSet(f[m]) /\ f[m-1] \in SUBSET f[m] /\ f[m] \in SUBSET Areas
          /\ f[m-1] \in SUBSET Areas
      BY <1>4, <1>c, <3>4, <3>6, <3>8
    <3>10. /\ Cardinality(f[m-1]) <= Cardinality(f[m])
           /\ Cardinality(f[m-1]) # Cardinality(f[m])
      BY <3>8, <3>9, FS_Subset
    <3>11. Cardinality(f[m-1]) \in Nat /\ Cardinality(f[m]) \in Nat
      BY <1>c, <3>9
    <3> QED BY <3>4, <3>6, <3>7, <3>10, <3>11
  <2>3. N \in 0..N
    BY <1>1
  <2>4. Cardinality(f[N]) >= N + 1
    BY <2>2, <2>3
  <2>5. Cardinality(f[N]) \in Nat /\ Cardinality(f[N]) <= N
    BY <1>4, <1>c, <2>3
  <2> QED BY <2>4, <2>5, <1>1
<1>7. Closed(N) /\ N \in 0..N
  BY <1>1, <1>6
<1> QED BY <1>2, <1>4, <1>7 DEF NextOf

-----------------------------------------------------------------------------
(* The invariant *)

AreaRecord == [next : Areas \cup {Null}, final : BOOLEAN]

\* The areas malloc gave out, in the heap ar; loose are those that are not
\* linked yet.
Alive(ar) == {a \in Areas : ar[a] \notin {Unused, Free}}
Listed(ar, loose) == Alive(ar) \ loose

\* The lists of all pools: start[p] is the first area of p's list, own[a] the
\* pool a was allocated for, and rank orders the areas of a list, the newest
\* first.  An area leads to one of the same list, only one leads to it, none
\* leads to the first, and one that is not the first is led to.
Lists(start, ar, own, rank, loose) ==
  /\ start \in [Pools -> Areas \cup {Null}]
  /\ own \in [Areas -> Pools \cup {Null}]
  /\ rank \in [Areas -> Nat]
  /\ loose \subseteq Alive(ar)
  /\ \A a \in Alive(ar) : own[a] \in Pools
  /\ \A a \in Alive(ar) : ar[a].next # Null
       => /\ ar[a].next \in Listed(ar, loose)
          /\ own[ar[a].next] = own[a]
          /\ rank[ar[a].next] < rank[a]
  /\ \A p \in Pools : start[p] # Null => start[p] \in Listed(ar, loose) /\ own[start[p]] = p
  /\ \A a, b \in Listed(ar, loose) : ar[a].next # Null /\ ar[a].next = ar[b].next => a = b
  /\ \A a \in Listed(ar, loose) : ar[a].next # Null => ar[a].next # start[own[a]]
  /\ \A a \in Listed(ar, loose) :
       a = start[own[a]] \/ \E b \in Listed(ar, loose) : ar[b].next = a

\* The areas that _GetArea has allocated and not linked.
Loose == {rp[t] : t \in {u \in Threads : pc[u] = "link"}}

Sweeping(t, p) == pc[t] = "sweep" /\ po[t] = p

\* The lists, as the pools and the threads see them.
Chained(start, own, rank) ==
  /\ Lists(start, area, own, rank, Loose)
  /\ \A a \in Alive(area) : pool[own[a]] # Free
  /\ \A t \in Threads : pc[t] = "sweep" => start[po[t]] = rp[t]
  /\ \A p \in Pools : pool[p] # Free /\ (\A t \in Threads : ~Sweeping(t, p))
       => start[p] = pool[p].head
  /\ \A t \in Threads : pc[t] = "link" =>
       own[rp[t]] = po[t] /\ area[rp[t]].next = pool[po[t]].head
  /\ \A t, u \in Threads : pc[t] = "link" /\ pc[u] = "link" /\ rp[t] = rp[u] => t = u

AreaTyped ==
  /\ area \in [Areas -> {Unused, Free} \cup AreaRecord]
  /\ rp \in [Threads -> Areas \cup {Null}]
  /\ armed \subseteq Areas
  /\ runs \in [Areas -> Nat]
  /\ \A t \in Threads : call[t].op = "ReleaseArea" => call[t].area \in Areas

\* Clients that do not share: who works on a pool is the one who made it.
OwnPools ==
  \A t \in Threads : call[t].op \in {"GetArea", "ReleaseArea"} =>
    /\ pc[t] \in {"wantGet", "get"}
         => hash[call[t].name] \in Pools /\ user[hash[call[t].name]] = t
    /\ pc[t] \in {"use", "link"} => po[t] \in Pools /\ user[po[t]] = t

\* An area knows of its finalizer as long as it is there.
Finals ==
  /\ FinalizedOnce
  /\ \A a \in Areas : Live(a) => (area[a].final <=> a \in armed)
  /\ \A a \in Areas : area[a] = Unused => a \notin armed

\* What a client got is linked to the pool it got it from, and the client has the
\* pool still.
GivenOwned(own) ==
  \A a \in Areas : given[a] # Null =>
    /\ a \in Listed(area, Loose) /\ own[a] = given[a]
    /\ given[a] \in Pools /\ user[given[a]] # Null

\* What a client gives back it no longer has, and it was linked.
GivenBack ==
  /\ given = [a \in Areas |-> given[a]]
  /\ \A t \in Threads : call[t].op = "ReleaseArea" =>
       /\ given[call[t].area] = Null
       /\ area[call[t].area] # Unused /\ call[t].area \notin Loose

AreaInv ==
  /\ AreaTyped /\ OwnPools /\ NoUseAfterRelease /\ Finals /\ GivenBack
  /\ \E start, own, rank : Chained(start, own, rank) /\ GivenOwned(own)

-----------------------------------------------------------------------------
(* What the code does to a list *)

Heap(ar) == ar \in [Areas -> {Unused, Free} \cup AreaRecord]

\* What an area in the heap is made of.
LEMMA HeapFields ==
  ASSUME NEW ar, Heap(ar)
  PROVE  /\ \A a \in Areas : ar[a] \in AreaRecord <=> a \in Alive(ar)
         /\ \A a \in Alive(ar) : a \in Areas /\ ar[a].next \in Areas \cup {Null}
                                /\ ar[a].final \in BOOLEAN
         /\ Null \notin Areas /\ Free \notin AreaRecord /\ Unused \notin AreaRecord
BY FreeIsNoArea, NullIsNoAddress DEF Heap, Alive, AreaRecord

\* What the code writes into an area.
LEMMA ChangedRecord ==
  ASSUME NEW q \in AreaRecord
  PROVE  /\ \A x \in Areas \cup {Null} :
              /\ [q EXCEPT !.next = x] \in AreaRecord
              /\ [q EXCEPT !.next = x].next = x /\ [q EXCEPT !.next = x].final = q.final
         /\ [q EXCEPT !.final = TRUE] \in AreaRecord
         /\ [q EXCEPT !.final = TRUE].next = q.next /\ [q EXCEPT !.final = TRUE].final = TRUE
BY DEF AreaRecord

\* _GetArea: a loose area that leads to the first one of the list.
LEMMA AllocatedLists ==
  ASSUME NEW ar, Heap(ar), NEW start, NEW own, NEW rank, NEW loose,
         Lists(start, ar, own, rank, loose),
         NEW p \in Pools, NEW a \in Areas, ar[a] = Unused,
         NEW br, br[a] \in AreaRecord, br[a].next = start[p],
         \A b \in Areas \ {a} : br[b] = ar[b]
  PROVE  \E ow, ra : /\ Lists(start, br, ow, ra, loose \cup {a})
                     /\ ow[a] = p /\ \A b \in Areas \ {a} : ow[b] = own[b]
<1> DEFINE ow == [own EXCEPT ![a] = p]
           n == IF start[p] = Null THEN 0 ELSE rank[start[p]] + 1
           ra == [rank EXCEPT ![a] = n]
<1>0. /\ start \in [Pools -> Areas \cup {Null}] /\ own \in [Areas -> Pools \cup {Null}]
      /\ rank \in [Areas -> Nat] /\ loose \subseteq Alive(ar)
  BY DEF Lists
<1>1. /\ br[a] \in AreaRecord /\ br[a].next = start[p]
      /\ \A b \in Areas \ {a} : br[b] = ar[b]
      /\ Alive(ar) \subseteq Areas
  BY DEF Alive
<1>2. a \notin Alive(ar) /\ Alive(br) = Alive(ar) \cup {a}
  BY <1>1, FreeIsNoArea DEF Alive, AreaRecord
<1>3. Listed(br, loose \cup {a}) = Listed(ar, loose)
  BY <1>2 DEF Listed
<1>4. start[p] # Null => start[p] \in Listed(ar, loose) /\ own[start[p]] = p /\ start[p] # a
  BY <1>2 DEF Lists, Listed
<1>5. /\ ow \in [Areas -> Pools \cup {Null}] /\ ow[a] = p
      /\ \A b \in Areas \ {a} : ow[b] = own[b]
  BY <1>0
<1>6. n \in Nat /\ (start[p] # Null => rank[start[p]] < n)
  BY <1>0
<1> HIDE DEF n
<1>7. ra \in [Areas -> Nat] /\ ra[a] = n /\ \A b \in Areas \ {a} : ra[b] = rank[b]
  BY <1>0, <1>6
<1> HIDE DEF ow, ra
<1>8. ASSUME NEW b \in Alive(br), br[b].next # Null
      PROVE  /\ br[b].next \in Listed(br, loose \cup {a})
             /\ ow[br[b].next] = ow[b] /\ ra[br[b].next] < ra[b]
  <2>1. CASE b = a
    <3>1. br[b].next = start[p] /\ start[p] \in Areas \ {a}
      BY <1>0, <1>1, <1>4, <1>8, <2>1
    <3> QED BY <3>1, <2>1, <1>3, <1>4, <1>5, <1>6, <1>7, <1>8
  <2>2. CASE b # a
    <3>1. b \in Alive(ar) /\ br[b] = ar[b]
      BY <1>1, <1>2, <2>2
    <3>2. ar[b].next \in Listed(ar, loose) /\ own[ar[b].next] = own[b] /\ rank[ar[b].next] < rank[b]
      BY <3>1, <1>8 DEF Lists
    <3>3. ar[b].next \in Areas \ {a} /\ b \in Areas \ {a}
      BY <3>1, <3>2, <1>1, <1>2, <2>2 DEF Listed
    <3> QED BY <3>1, <3>2, <3>3, <1>3, <1>5, <1>7
  <2> QED BY <2>1, <2>2
<1>9. \A b \in Listed(ar, loose) : br[b] = ar[b] /\ ow[b] = own[b] /\ b # a
  BY <1>1, <1>2, <1>5 DEF Listed
<1>10. Lists(start, br, ow, ra, loose \cup {a})
  <2>1. loose \cup {a} \subseteq Alive(br) /\ \A b \in Alive(br) : ow[b] \in Pools
    BY <1>0, <1>1, <1>2, <1>5 DEF Lists
  <2>2. \A q \in Pools : start[q] # Null => start[q] \in Listed(ar, loose) /\ ow[start[q]] = q
    BY <1>9 DEF Lists
  <2>3. \A b, c \in Listed(ar, loose) : br[b].next # Null /\ br[b].next = br[c].next => b = c
    BY <1>9 DEF Lists
  <2>4. \A b \in Listed(ar, loose) : br[b].next # Null => br[b].next # start[ow[b]]
    BY <1>9 DEF Lists
  <2>5. \A b \in Listed(ar, loose) :
          b = start[ow[b]] \/ \E c \in Listed(ar, loose) : br[c].next = b
    <3>1. SUFFICES ASSUME NEW b \in Listed(ar, loose), b # start[ow[b]]
                   PROVE  \E c \in Listed(ar, loose) : br[c].next = b
      OBVIOUS
    <3>2. PICK c \in Listed(ar, loose) : ar[c].next = b
      BY <3>1, <1>9 DEF Lists
    <3> QED BY <3>2, <1>9
  <2> QED BY <1>0, <1>3, <1>5, <1>7, <1>8, <2>1, <2>2, <2>3, <2>4, <2>5 DEF Lists
<1> QED BY <1>5, <1>10

\* _GetArea: the loose area becomes the first one of its list.
LEMMA LinkedLists ==
  ASSUME NEW ar, Heap(ar), NEW start, NEW own, NEW rank, NEW loose,
         Lists(start, ar, own, rank, loose),
         NEW a \in loose, ar[a].next = start[own[a]],
         NEW st, st = [start EXCEPT ![own[a]] = a]
  PROVE  Lists(st, ar, own, rank, loose \ {a})
<1> DEFINE p == own[a]
           L == Listed(ar, loose)
           M == Listed(ar, loose \ {a})
<1>0. /\ start \in [Pools -> Areas \cup {Null}] /\ own \in [Areas -> Pools \cup {Null}]
      /\ rank \in [Areas -> Nat] /\ loose \subseteq Alive(ar) /\ Alive(ar) \subseteq Areas
      /\ \A b \in Alive(ar) : own[b] \in Pools
  BY DEF Lists, Alive
<1>1. a \in Alive(ar) /\ p \in Pools /\ a \notin L /\ M = L \cup {a} /\ a # Null
  BY <1>0, NullIsNoAddress DEF Listed
<1>2. st \in [Pools -> Areas \cup {Null}] /\ st[p] = a /\ \A q \in Pools \ {p} : st[q] = start[q]
  BY <1>0, <1>1
<1>3. \A b \in Alive(ar) : ar[b].next # Null
        => ar[b].next \in L /\ own[ar[b].next] = own[b] /\ rank[ar[b].next] < rank[b]
  BY DEF Lists
<1>4. \A q \in Pools : start[q] # Null => start[q] \in L /\ own[start[q]] = q
  BY DEF Lists
<1>5. \A b, c \in L : ar[b].next # Null /\ ar[b].next = ar[c].next => b = c
  BY DEF Lists
<1>6. \A b \in L : ar[b].next # Null => ar[b].next # start[own[b]]
  BY DEF Lists
<1>7. \A b \in L : b = start[own[b]] \/ \E c \in L : ar[c].next = b
  BY DEF Lists
<1>s. L \subseteq Alive(ar)
  BY DEF Listed
<1>t. ar[a].next = start[p]
  OBVIOUS
<1> HIDE DEF L, M, p
<1>8. \A b \in Alive(ar) : ar[b].next # Null
        => ar[b].next \in M /\ own[ar[b].next] = own[b] /\ rank[ar[b].next] < rank[b]
  BY <1>1, <1>3
<1>9. \A q \in Pools : st[q] # Null => st[q] \in M /\ own[st[q]] = q
  BY <1>1, <1>2, <1>4 DEF p
<1>10. ASSUME NEW b \in M, NEW c \in M, ar[b].next # Null, ar[b].next = ar[c].next
       PROVE  b = c
  <2>1. \A d \in L : ar[d].next # Null => ar[d].next # ar[a].next
    <3>1. SUFFICES ASSUME NEW d \in L, ar[d].next # Null, ar[d].next = ar[a].next PROVE FALSE
      OBVIOUS
    <3>2. own[ar[d].next] = own[d] /\ own[start[p]] = p
      BY <1>1, <1>3, <1>4, <1>s, <1>t, <3>1
    <3> QED BY <3>1, <3>2, <1>6, <1>t
  <2> QED BY <2>1, <1>1, <1>5, <1>10
<1>11. \A b \in M : ar[b].next # Null => ar[b].next # st[own[b]]
  <2>1. SUFFICES ASSUME NEW b \in M, ar[b].next # Null, ar[b].next = st[own[b]] PROVE FALSE
    OBVIOUS
  <2>2. b \in Alive(ar) /\ own[b] \in Pools /\ ar[b].next \in L
    BY <2>1, <1>0, <1>1, <1>3, <1>s
  <2>3. own[b] # p
    BY <2>1, <2>2, <1>1, <1>2
  <2>4. b \in L /\ ar[b].next = start[own[b]]
    BY <2>1, <2>2, <2>3, <1>1, <1>2 DEF p
  <2> QED BY <2>1, <2>4, <1>6
<1>12. \A b \in M : b = st[own[b]] \/ \E c \in M : ar[c].next = b
  <2>1. SUFFICES ASSUME NEW b \in M, b # st[own[b]] PROVE \E c \in M : ar[c].next = b
    OBVIOUS
  <2>2. b \in L /\ own[b] \in Pools
    BY <2>1, <1>0, <1>1, <1>2, <1>s DEF p
  <2>3. CASE own[b] = p /\ b = start[p]
    BY <2>3, <1>1, <1>t
  <2>4. CASE ~(own[b] = p /\ b = start[p])
    <3>1. b # start[own[b]]
      BY <2>1, <2>2, <2>4, <1>2
    <3> QED BY <3>1, <2>2, <1>1, <1>7
  <2> QED BY <2>3, <2>4
<1> QED
  BY <1>0, <1>2, <1>8, <1>9, <1>10, <1>11, <1>12 DEF Lists, M

\* _ReleaseArea: the area that led to a leads past it.
LEMMA UnlinkedLists ==
  ASSUME NEW ar, Heap(ar), NEW start, NEW own, NEW rank, NEW loose,
         Lists(start, ar, own, rank, loose),
         NEW a \in Listed(ar, loose), NEW r \in Listed(ar, loose), ar[r].next = a,
         \A c \in loose : ar[c].next # a,
         NEW br, br \in [Areas -> {Unused, Free} \cup AreaRecord], br[a] = Free,
         br[r] \in AreaRecord, br[r].next = ar[a].next,
         \A b \in Areas \ {a, r} : br[b] = ar[b]
  PROVE  Lists(start, br, own, rank, loose)
<1> DEFINE L == Listed(ar, loose)
           M == Listed(br, loose)
<1>0. /\ start \in [Pools -> Areas \cup {Null}] /\ own \in [Areas -> Pools \cup {Null}]
      /\ rank \in [Areas -> Nat] /\ loose \subseteq Alive(ar) /\ Alive(ar) \subseteq Areas
      /\ \A b \in Alive(ar) : own[b] \in Pools
  BY DEF Lists, Alive
<1>3. \A b \in Alive(ar) : ar[b].next # Null
        => ar[b].next \in L /\ own[ar[b].next] = own[b] /\ rank[ar[b].next] < rank[b]
  BY DEF Lists
<1>4. \A q \in Pools : start[q] # Null => start[q] \in L /\ own[start[q]] = q
  BY DEF Lists
<1>5. \A b, c \in L : ar[b].next # Null /\ ar[b].next = ar[c].next => b = c
  BY DEF Lists
<1>6. \A b \in L : ar[b].next # Null => ar[b].next # start[own[b]]
  BY DEF Lists
<1>7. \A b \in L : b = start[own[b]] \/ \E c \in L : ar[c].next = b
  BY DEF Lists
<1>s. /\ a \in L /\ r \in L /\ L \subseteq Alive(ar) /\ a # Null
      /\ L \cap loose = {} /\ Alive(ar) = L \cup loose
  BY <1>0, NullIsNoAddress DEF Listed
<1>1. a # r
  BY <1>0, <1>3, <1>s
<1>2. Alive(br) = Alive(ar) \ {a} /\ M = L \ {a}
  BY <1>0, <1>1, <1>s, FreeIsNoArea DEF Alive, AreaRecord, Listed
<1>r. /\ \A b \in Alive(br) : b # r => br[b] = ar[b]
      /\ \A b \in Alive(ar) : b # a => b \in Alive(br)
  BY <1>0, <1>2
<1> HIDE DEF L, M
\* What leads on leads past a.
<1>8. \A b \in Alive(br) : br[b].next # a
  <2>1. \A b \in Alive(ar) : ar[b].next = a => b = r
    BY <1>5, <1>s
  <2>2. ar[a].next # a
    BY <1>1, <2>1, <1>s
  <2> QED BY <2>1, <2>2, <1>2, <1>r
<1>9. ASSUME NEW b \in Alive(br), br[b].next # Null
      PROVE  br[b].next \in M /\ own[br[b].next] = own[b] /\ rank[br[b].next] < rank[b]
  <2>1. b \in Alive(ar) /\ b # a
    BY <1>2
  <2>2. CASE b = r
    <3>1. own[a] = own[r] /\ rank[a] < rank[r] /\ br[b].next = ar[a].next
      BY <2>2, <1>3, <1>s
    <3>2. /\ ar[a].next \in L /\ own[ar[a].next] = own[a] /\ rank[ar[a].next] < rank[a]
      BY <3>1, <1>3, <1>9, <1>s
    <3>3. rank[ar[a].next] \in Nat /\ rank[a] \in Nat /\ rank[r] \in Nat
      BY <3>2, <1>0, <1>s
    <3>4. rank[ar[a].next] < rank[r]
      BY <3>1, <3>2, <3>3
    <3> QED BY <3>1, <3>2, <3>4, <1>2, <1>8, <2>2
  <2>3. CASE b # r
    BY <2>1, <2>3, <1>2, <1>3, <1>8, <1>9, <1>r
  <2> QED BY <2>2, <2>3
<1>10. \A q \in Pools : start[q] # Null => start[q] \in M /\ own[start[q]] = q
  <2>1. own[a] = own[r] /\ \A q \in Pools : start[q] = a => q = own[a]
    BY <1>3, <1>4, <1>s
  <2>2. \A q \in Pools : start[q] # a
    BY <2>1, <1>6, <1>s
  <2> QED BY <2>2, <1>2, <1>4
<1>11. ASSUME NEW b \in M, NEW c \in M, br[b].next # Null, br[b].next = br[c].next
       PROVE  b = c
  <2>1. b \in L /\ c \in L /\ b # a /\ c # a /\ b \in Alive(br) /\ c \in Alive(br)
    BY <1>2, <1>r, <1>s
  <2>2. CASE b = r
    BY <2>1, <2>2, <1>5, <1>11, <1>r, <1>s
  <2>3. CASE c = r
    BY <2>1, <2>3, <1>5, <1>11, <1>r, <1>s
  <2>4. CASE b # r /\ c # r
    BY <2>1, <2>4, <1>5, <1>11, <1>r
  <2> QED BY <2>2, <2>3, <2>4
<1>12. ASSUME NEW b \in M, br[b].next # Null
       PROVE  br[b].next # start[own[b]]
  <2>1. b \in L /\ b \in Alive(br) /\ own[a] = own[r]
    BY <1>2, <1>3, <1>r, <1>s
  <2> QED BY <2>1, <1>6, <1>12, <1>r, <1>s
<1>13. ASSUME NEW b \in M, b # start[own[b]]
       PROVE  \E c \in M : br[c].next = b
  <2>1. PICK c \in L : ar[c].next = b
    BY <1>2, <1>7, <1>13
  <2>2. CASE c = a
    <3>1. r \in M /\ br[r].next = b
      BY <2>1, <2>2, <1>1, <1>2, <1>s
    <3> QED BY <3>1
  <2>3. CASE c # a
    <3>1. c # r
      BY <2>1, <1>2, <1>13
    <3> QED BY <2>1, <2>3, <3>1, <1>2, <1>r, <1>s
  <2> QED BY <2>2, <2>3
<1>14. loose \subseteq Alive(br) /\ \A b \in Alive(br) : own[b] \in Pools
  BY <1>0, <1>2, <1>s
<1> QED
  BY <1>0, <1>9, <1>10, <1>11, <1>12, <1>13, <1>14 DEF Lists, M

\* _ReleasePool: the first area of a list is freed, and the next one is first.
LEMMA SweptLists ==
  ASSUME NEW ar, Heap(ar), NEW start, NEW own, NEW rank, NEW loose,
         Lists(start, ar, own, rank, loose),
         NEW p \in Pools, start[p] # Null,
         \A c \in loose : ar[c].next # start[p],
         NEW br, br = [ar EXCEPT ![start[p]] = Free],
         NEW st, st = [start EXCEPT ![p] = ar[start[p]].next]
  PROVE  Lists(st, br, own, rank, loose)
<1> DEFINE a == start[p]
           L == Listed(ar, loose)
           M == Listed(br, loose)
<1>0. /\ start \in [Pools -> Areas \cup {Null}] /\ own \in [Areas -> Pools \cup {Null}]
      /\ rank \in [Areas -> Nat] /\ loose \subseteq Alive(ar) /\ Alive(ar) \subseteq Areas
      /\ \A b \in Alive(ar) : own[b] \in Pools
  BY DEF Lists, Alive
<1>3. \A b \in Alive(ar) : ar[b].next # Null
        => ar[b].next \in L /\ own[ar[b].next] = own[b] /\ rank[ar[b].next] < rank[b]
  BY DEF Lists
<1>4. \A q \in Pools : start[q] # Null => start[q] \in L /\ own[start[q]] = q
  BY DEF Lists
<1>5. \A b, c \in L : ar[b].next # Null /\ ar[b].next = ar[c].next => b = c
  BY DEF Lists
<1>6. \A b \in L : ar[b].next # Null => ar[b].next # start[own[b]]
  BY DEF Lists
<1>7. \A b \in L : b = start[own[b]] \/ \E c \in L : ar[c].next = b
  BY DEF Lists
<1>s. /\ a \in L /\ own[a] = p /\ L \subseteq Alive(ar) /\ a # Null
      /\ L \cap loose = {} /\ Alive(ar) = L \cup loose
  BY <1>0, <1>4 DEF Listed
<1>f. a \in Areas /\ br[a] = Free /\ \A b \in Areas \ {a} : br[b] = ar[b]
  BY <1>0, <1>s DEF Heap
<1>2. Alive(br) = Alive(ar) \ {a} /\ M = L \ {a}
  BY <1>f, <1>s DEF Alive, Listed
<1>n. ar[a].next \in Areas \cup {Null}
  BY <1>s, HeapFields
<1>u. /\ st \in [Pools -> Areas \cup {Null}] /\ st[p] = ar[a].next
      /\ \A q \in Pools \ {p} : st[q] = start[q]
  BY <1>0, <1>n
<1>r. /\ \A b \in Alive(br) : br[b] = ar[b] /\ b \in Alive(ar) /\ b # a
      /\ \A c \in loose : ar[c].next # a
  BY <1>0, <1>2, <1>f
<1>v. start[p] = a
  OBVIOUS
<1> HIDE DEF L, M, a
<1>8. \A b \in Alive(ar) : ar[b].next # a
  <2>1. \A b \in L : ar[b].next = a => own[b] = p
    BY <1>3, <1>s
  <2> QED BY <2>1, <1>6, <1>r, <1>s, <1>v
<1>9. ASSUME NEW b \in Alive(br), br[b].next # Null
      PROVE  br[b].next \in M /\ own[br[b].next] = own[b] /\ rank[br[b].next] < rank[b]
  <2>1. br[b] = ar[b] /\ b \in Alive(ar)
    BY <1>r
  <2>2. ar[b].next \in L /\ own[ar[b].next] = own[b] /\ rank[ar[b].next] < rank[b]
    BY <2>1, <1>3, <1>9
  <2>3. ar[b].next \in M
    BY <2>1, <2>2, <1>2, <1>8
  <2> QED BY <2>1, <2>2, <2>3
<1>10. \A q \in Pools : st[q] # Null => st[q] \in M /\ own[st[q]] = q
  <2>1. ar[a].next # Null => ar[a].next \in M /\ own[ar[a].next] = p
    BY <1>2, <1>3, <1>8, <1>s
  <2>2. \A q \in Pools \ {p} : start[q] # Null => start[q] \in M /\ own[start[q]] = q
    BY <1>2, <1>4, <1>s
  <2> QED BY <2>1, <2>2, <1>u
<1>11. \A b, c \in M : br[b].next # Null /\ br[b].next = br[c].next => b = c
  BY <1>2, <1>5, <1>f, <1>0, <1>s
<1>12. ASSUME NEW b \in M, br[b].next # Null, br[b].next = st[own[b]]
       PROVE  FALSE
  <2>1. b \in L /\ b # a /\ br[b] = ar[b] /\ own[b] \in Pools
    BY <1>0, <1>2, <1>f, <1>s
  <2>2. CASE own[b] = p
    BY <2>1, <2>2, <1>5, <1>12, <1>s, <1>u
  <2>3. CASE own[b] # p
    BY <2>1, <2>3, <1>6, <1>12, <1>u
  <2> QED BY <2>2, <2>3
<1>13. ASSUME NEW b \in M, b # st[own[b]]
       PROVE  \E c \in M : br[c].next = b
  <2>1. b \in L /\ b # a /\ own[b] \in Pools
    BY <1>0, <1>2, <1>s
  <2>2. b # start[own[b]]
    BY <2>1, <1>13, <1>u, <1>v
  <2>3. PICK c \in L : ar[c].next = b
    BY <2>1, <2>2, <1>7
  <2>4. c # a
    <3>1. own[ar[a].next] = p \/ ar[a].next = Null
      BY <1>3, <1>s
    <3>2. b # Null
      BY <2>1, <1>0, <1>s, NullIsNoAddress
    <3> QED BY <2>3, <3>1, <3>2, <1>13, <1>u
  <2> QED BY <2>3, <2>4, <1>0, <1>2, <1>f, <1>s
<1>14. loose \subseteq Alive(br) /\ \A b \in Alive(br) : own[b] \in Pools
  BY <1>0, <1>2, <1>s
<1> QED
  BY <1>0, <1>u, <1>9, <1>10, <1>11, <1>12, <1>13, <1>14 DEF Lists, M

\* SetFinalizer does not touch the lists.
LEMMA MarkedLists ==
  ASSUME NEW ar, NEW start, NEW own, NEW rank, NEW loose,
         Lists(start, ar, own, rank, loose),
         NEW br, Alive(br) = Alive(ar), \A b \in Alive(ar) : br[b].next = ar[b].next
  PROVE  Lists(start, br, own, rank, loose)
<1>1. Listed(br, loose) = Listed(ar, loose) /\ Listed(ar, loose) \subseteq Alive(ar)
  BY DEF Listed
<1>2. \A b \in Listed(ar, loose) : br[b].next = ar[b].next
  BY <1>1
<1> QED BY <1>1, <1>2 DEF Lists

\* A list that is empty is the list of a pool that has no areas.
LEMMA NoneListed ==
  ASSUME NEW ar, Heap(ar), NEW start, NEW own, NEW rank, NEW loose,
         Lists(start, ar, own, rank, loose), IsFiniteSet(Areas),
         NEW p \in Pools, start[p] = Null
  PROVE  \A a \in Listed(ar, loose) : own[a] # p
<1> DEFINE S == {a \in Listed(ar, loose) : own[a] = p}
<1>1. SUFFICES ASSUME S # {} PROVE FALSE
  OBVIOUS
<1>2. S \subseteq Areas /\ rank \in [Areas -> Nat]
  BY DEF Listed, Alive, Lists
<1> DEFINE T == {rank[a] : a \in S}
<1>3. IsFiniteSet(T)
  <2>1. IsFiniteSet(S)
    BY <1>2, FS_Subset
  <2> HIDE DEF S
  <2>2. PICK f : f = [a \in S |-> rank[a]]
    OBVIOUS
  <2>3. f \in Surjection(S, T)
    BY <2>2 DEF Surjection
  <2> HIDE DEF T
  <2> QED BY <2>1, <2>3, FS_Surjection
<1>4. T \subseteq Nat /\ T # {}
  BY <1>1, <1>2
<1>5. PICK n \in T : \A m \in T : m <= n
  <2> HIDE DEF T
  <2> QED BY <1>3, <1>4, LargestElement
<1>6. PICK a \in S : \A b \in S : rank[b] <= rank[a]
  BY <1>5
<1>7. a \in Listed(ar, loose) /\ own[a] = p /\ a # Null
  BY <1>2, NullIsNoAddress
<1>8. PICK b \in Listed(ar, loose) : ar[b].next = a
  BY <1>7 DEF Lists
<1>9. own[a] = own[b] /\ rank[a] < rank[b]
  BY <1>7, <1>8 DEF Lists, Listed
<1>10. b \in S
  BY <1>7, <1>8, <1>9
<1> QED BY <1>2, <1>6, <1>9, <1>10

-----------------------------------------------------------------------------
(* The steps of the library and of its clients *)

\* The areas of p's list are p's, and are there.
LEMMA ListOwned ==
  ASSUME NEW start, NEW own, NEW rank, Lists(start, area, own, rank, Loose),
         IsFiniteSet(Areas), NEW p \in Pools
  PROVE  \A a \in ListFrom(start[p]) : a \in Listed(area, Loose) /\ own[a] = p
<1> DEFINE T == {a \in Listed(area, Loose) : own[a] = p}
<1>1. start[p] # Null => start[p] \in T
  BY DEF Lists
<1>2. \A b \in T : Live(b) /\ area[b].next # Null => area[b].next \in T
  BY DEF Lists, Listed
<1> HIDE DEF T
<1>3. ListFrom(start[p]) \subseteq T
  BY <1>1, <1>2, ListWithin
<1> QED BY <1>3 DEF T

LEMMA AliveIsLive == \A a \in Areas : Live(a) <=> a \in Alive(area)
BY DEF Live, Alive

\* Nobody else works on a pool that a client still has.
LEMMA OwnAlone ==
  ASSUME IInv, OwnPools, NEW t \in Threads, NEW p \in Pools, user[p] = t
  PROVE  /\ pool[p] # Free
         /\ \A u \in Threads : ~Sweeping(u, p)
         /\ \A u \in Threads : pc[u] = "link" /\ po[u] = p => u = t
<1>1. t # Null
  BY NullIsNoAddress
<1>2. \A u \in Threads : Releasing(u) => user[Target(u)] = Null
  BY DEF IInv, TableInv, ReleasedByOne
<1>3. \A u \in Threads : Sweeping(u, p) => Releasing(u) /\ Target(u) = p
  BY DEF IInv, CallAtPlace, Releasing, Target, Sweeping
<1>4. \A u \in Threads : pc[u] = "link" => user[po[u]] = u
  BY DEF IInv, CallAtPlace, OwnPools
<1> QED BY <1>1, <1>2, <1>3, <1>4 DEF IInv, TableInv, ReleasedByOne

\* No other thread takes a pool away from the one who works on it.
LEMMA OwnStep ==
  ASSUME ~Shared, ~ReleaseAllNamed, IInv, OwnPools, [Next]_vars
  PROVE  OwnPools'
<1>. USE LockingPlaces, NullIsNoAddress DEF table, heap, local, client, lockVars, Goto, NoCall, ByName, OwnPools
<1>0. /\ Typed /\ CallAtPlace /\ TableAgrees /\ TakenDown /\ ReleasedByOne
  BY DEF IInv, TableInv
<1>1. CASE UNCHANGED vars
  BY <1>1 DEF vars
<1>2. ASSUME NEW t \in Threads, Run(t)
      PROVE  OwnPools'
  <2>1. CASE LockWrite(t)
    BY <1>0, <2>1 DEF LockWrite, Lk!QueueWriter, Lk!AdmitWriter, Lk!ReadersIn, Lk!WritersIn, Typed
  <2>2. CASE NewPoolNamed(t)
    <3>1. CASE Taken(call[t].name)
      BY <1>0, <2>2, <3>1 DEF NewPoolNamed, Return, Typed
    <3>2. CASE ~Taken(call[t].name)
      <4>1. PICK p \in Pools : /\ pool[p] = Free
                               /\ hash' = [hash EXCEPT ![call[t].name] = p]
                               /\ user' = [user EXCEPT ![p] = t]
        BY <2>2, <3>2 DEF NewPoolNamed
      <4>2. call[t].name \in Names /\ hash[call[t].name] = Null
        BY <1>0, <2>2, <3>2 DEF NewPoolNamed, Taken, CallAtPlace
      <4>3. /\ \A u \in Threads \ {t} : UNCHANGED <<pc[u], call[u], po[u]>>
            /\ pc'[t] = "idle"
        BY <1>0, <2>2 DEF NewPoolNamed, Return, Typed
      <4>4. \A u \in Threads, q \in Pools : user[q] = u => user'[q] = u
        BY <1>0, <4>1 DEF Typed, ReleasedByOne
      <4>5. \A n \in Names : hash[n] \in Pools => hash'[n] = hash[n]
        BY <1>0, <4>1, <4>2 DEF Typed
      <4>. QED BY <1>0, <4>3, <4>4, <4>5 DEF CallAtPlace
    <3>. QED BY <3>1, <3>2
  <2>3. CASE GetPool(t)
    BY <1>0, <2>3 DEF GetPool, Lk!Leave, Typed
  <2>4. CASE Unname(t)
    <3>1. /\ call[t].op = "ReleasePool" /\ po[t] \in Pools /\ pool[po[t]] # Free /\ user[po[t]] = Null
      BY <1>0, <2>4 DEF Unname, CallAtPlace, ReleasedByOne, Releasing, Target
    <3>2. \A n \in Names : hash'[n] = IF n = pool[po[t]].name THEN Null ELSE hash[n]
      BY <2>4 DEF Unname, HashWithout
    <3>3. \A n \in Names : hash[n] \in Pools /\ user[hash[n]] \in Threads => hash'[n] = hash[n]
      BY <1>0, <3>1, <3>2 DEF TableAgrees
    <3>4. /\ \A u \in Threads \ {t} : pc'[u] = pc[u]
          /\ UNCHANGED <<call, po, user>>
      BY <1>0, <2>4 DEF Unname, Typed
    <3>. QED BY <1>0, <3>1, <3>3, <3>4 DEF CallAtPlace
  <2>5. CASE ReleaseAllPool(t)
    <3>1. Return(t) /\ UNCHANGED <<hash, user>>
      BY <1>0, <2>5 DEF ReleaseAllPool, TakenDown, NoTable, CallAtPlace
    <3>. QED BY <1>0, <3>1 DEF Return, Typed
  <2>6. CASE UseNull(t)
    BY <1>0, <2>6 DEF UseNull, Return, Typed
  <2>7. CASE GetArea(t)
    BY <1>0, <2>7 DEF GetArea, Using, Typed
  <2>8. CASE Link(t)
    BY <1>0, <2>8 DEF Link, Return, Typed
  <2>9. CASE ReleaseArea(t)
    BY <1>0, <2>9 DEF ReleaseArea, Using, Return, Typed
  <2>10. CASE ReleasePool(t)
    BY <1>0, <2>10 DEF ReleasePool, Using, Typed
  <2>11. CASE SweepArea(t)
    BY <1>0, <2>11 DEF SweepArea, Typed
  <2>12. CASE FreePool(t)
    <3>1. Return(t)
      BY <1>0, <2>12 DEF FreePool, CallAtPlace
    <3>. QED BY <1>0, <2>12, <3>1 DEF FreePool, Return, Typed
  <2>13. CASE GoWild(t)
    BY <1>0, <2>13 DEF GoWild, Using, Typed
  <2>. QED BY <1>2, <2>1, <2>2, <2>3, <2>4, <2>5, <2>6, <2>7, <2>8, <2>9, <2>10, <2>11, <2>12, <2>13 DEF Run
<1>3. ASSUME NEW t \in Threads, Client(t)
      PROVE  OwnPools'
  <2>1. ASSUME NEW n \in Names, CallNewPool(t, n)
        PROVE  OwnPools'
    BY <1>0, <2>1 DEF CallNewPool, Begin, TableUsable, Typed
  <2>2. ASSUME NEW p \in Pools, NewPoolUnnamed(t, p)
        PROVE  OwnPools'
    <3>1. \A u \in Threads, q \in Pools : user[q] = u => user'[q] = u
      BY <1>0, <2>2 DEF NewPoolUnnamed, Typed, ReleasedByOne
    <3>. QED BY <2>2, <3>1 DEF NewPoolUnnamed
  <2>3. ASSUME NEW op \in ByName, NEW n \in Names, NEW a \in Areas \cup {Null}, CallByName(t, op, n, a)
        PROVE  OwnPools'
    <3>1. PICK p \in Pools : user[p] = t /\ pool[p].name = n
      BY <2>3 DEF CallByName, MayUse
    <3>2. pool[p] # Free /\ hash[n] = p
      BY <1>0, <3>1 DEF ReleasedByOne, TableAgrees
    <3>3. /\ \A u \in Threads \ {t} : UNCHANGED <<pc[u], call[u], po[u]>>
          /\ UNCHANGED hash /\ pc'[t] = "wantGet"
          /\ call'[t].op = op /\ call'[t].name = n
      BY <1>0, <2>3 DEF CallByName, Begin, Typed
    <3>4. user' = [q \in Pools |-> IF op = "ReleasePool" /\ q = hash[n] THEN Null ELSE user[q]]
      BY <2>3 DEF CallByName
    <3>5. \A u \in Threads \ {t}, q \in Pools : user[q] = u => user'[q] = u
      BY <3>1, <3>2, <3>4
    <3>6. op # "ReleasePool" => user'[p] = t
      BY <3>1, <3>4
    <3>. QED BY <1>0, <3>2, <3>3, <3>5, <3>6
  <2>4. ASSUME NEW op \in ByName, NEW p \in Pools, NEW a \in Areas \cup {Null}, CallByPool(t, op, p, a)
        PROVE  OwnPools'
    <3>1. /\ \A u \in Threads \ {t} : UNCHANGED <<pc[u], call[u], po[u]>>
          /\ UNCHANGED hash /\ pc'[t] = "use" /\ po'[t] = p
          /\ call'[t].op = op
      BY <1>0, <2>4 DEF CallByPool, Begin, Typed
    <3>2. \A u \in Threads \ {t}, q \in Pools : user[q] = u => user'[q] = u
      BY <1>0, <2>4 DEF CallByPool, Typed
    <3>3. op # "ReleasePool" => user'[p] = t
      BY <2>4 DEF CallByPool
    <3>. QED BY <1>0, <3>1, <3>2, <3>3
  <2>5. ASSUME NEW a \in Areas, SetFinalizer(t, a)
        PROVE  OwnPools'
    BY <2>5 DEF SetFinalizer
  <2>6. CASE CallReleaseAllPool(t)
    BY <1>0, <2>6 DEF CallReleaseAllPool, Begin, Typed
  <2>7. CASE InitPool(t)
    <3>1. \A n \in Names : hash'[n] = hash[n]
      BY <1>0, <2>7 DEF InitPool, TakenDown, NoTable
    <3>2. UNCHANGED <<pc, call, po, user>>
      BY <2>7 DEF InitPool
    <3>. QED BY <1>0, <3>1, <3>2 DEF CallAtPlace
  <2>. QED BY <1>3, <2>1, <2>2, <2>3, <2>4, <2>5, <2>6, <2>7 DEF Client, ByName
<1>. QED BY <1>1, <1>2, <1>3 DEF Next

\* No step uses memory that was freed.
LEMMA WildStep ==
  ASSUME IsFiniteSet(Areas), IInv, AreaInv, [Next]_vars
  PROVE  NoUseAfterRelease'
<1>0. /\ Typed /\ CallAtPlace /\ ReleasedByOne /\ OwnPools /\ NoUseAfterRelease /\ AreaTyped
  BY DEF IInv, TableInv, AreaInv
<1>a. PICK start, own, rank : Chained(start, own, rank)
  BY DEF AreaInv
<1>1. ASSUME NEW t \in Threads, GoWild(t) PROVE FALSE
  <2>1. CASE pc[t] \in {"use", "link", "unname"} /\ po[t] # Null /\ pool[po[t]] = Free
    <3>1. CASE call[t].op = "ReleasePool"
      BY <1>0, <2>1, <3>1 DEF CallAtPlace, ReleasedByOne, Releasing, Target
    <3>2. CASE call[t].op # "ReleasePool"
      <4>1. po[t] \in Pools /\ user[po[t]] = t
        BY <1>0, <2>1, <3>2 DEF CallAtPlace, OwnPools, ByName
      <4>. QED BY <2>1, <4>1, OwnAlone, <1>0
    <3>. QED BY <3>1, <3>2
  <2>2. CASE Using(t, {"ReleaseArea"}) /\ ~Walkable(po[t])
    <3>1. po[t] \in Pools /\ user[po[t]] = t
      BY <1>0, <2>2 DEF Using, OwnPools
    <3>2. start[po[t]] = pool[po[t]].head
      BY <3>1, <1>0, <1>a, OwnAlone DEF Chained
    <3>3. \A a \in ListFrom(start[po[t]]) : a \in Listed(area, Loose)
      BY <3>1, <1>a, ListOwned DEF Chained
    <3>4. \A a \in ListFrom(pool[po[t]].head) : Live(a)
      BY <3>2, <3>3 DEF Listed, Alive, Live
    <3>. QED BY <2>2, <3>4 DEF Walkable
  <2>3. CASE pc[t] = "sweep" /\ rp[t] # Null /\ ~Live(rp[t])
    <3>1. po[t] \in Pools
      BY <1>0, <2>3 DEF CallAtPlace, ReleasedByOne, Releasing, Target
    <3>2. start[po[t]] = rp[t]
      BY <1>a, <2>3 DEF Chained
    <3>3. start[po[t]] \in Listed(area, Loose)
      BY <1>a, <2>3, <3>1, <3>2 DEF Chained, Lists
    <3>. QED BY <2>3, <3>2, <3>3 DEF Listed, Alive, Live
  <2>. QED BY <1>1, <2>1, <2>2, <2>3 DEF GoWild
<1>. USE LockingPlaces DEF NoUseAfterRelease, table, heap, local, client, lockVars, Goto
<1>2. CASE UNCHANGED vars
  BY <1>0, <1>2 DEF vars
<1>3. ASSUME NEW t \in Threads, Run(t)
      PROVE  NoUseAfterRelease'
  <2>1. CASE LockWrite(t)
    BY <1>0, <2>1 DEF LockWrite, Lk!QueueWriter, Lk!AdmitWriter, Typed
  <2>2. CASE NewPoolNamed(t) \/ UseNull(t) \/ Link(t) \/ ReleaseArea(t)
    BY <1>0, <2>2 DEF NewPoolNamed, UseNull, Link, ReleaseArea, Return, Typed
  <2>3. CASE GetPool(t) \/ Unname(t) \/ GetArea(t)
    BY <1>0, <2>3 DEF GetPool, Unname, GetArea, Typed
  <2>4. CASE ReleaseAllPool(t)
    BY <1>0, <2>4 DEF ReleaseAllPool, Return, Typed
  <2>5. CASE ReleasePool(t) \/ SweepArea(t) \/ FreePool(t)
    BY <1>0, <2>5 DEF ReleasePool, SweepArea, FreePool, Return, Typed
  <2>. QED BY <1>1, <1>3, <2>1, <2>2, <2>3, <2>4, <2>5 DEF Run
<1>4. ASSUME NEW t \in Threads, Client(t)
      PROVE  NoUseAfterRelease'
  BY <1>0, <1>4 DEF Client, CallNewPool, NewPoolUnnamed, CallByName, CallByPool, SetFinalizer,
     CallReleaseAllPool, InitPool, Begin, Typed
<1>. QED BY <1>2, <1>3, <1>4 DEF Next

\* _ReleaseArea frees an area of the caller's pool that another one of it leads
\* to; the first one of the list it does not find.
LEMMA ReleasedArea ==
  ASSUME IsFiniteSet(Areas), IInv, OwnPools, AreaTyped,
         NEW start, NEW own, NEW rank, Chained(start, own, rank),
         NEW t \in Threads, ReleaseArea(t)
  PROVE  \/ UNCHANGED <<area, runs>>
         \/ \E a, r \in Listed(area, Loose) :
              /\ a = call[t].area
              /\ area[r].next = a /\ a # r
              /\ \A c \in Loose : area[c].next # a
              /\ area' \in [Areas -> {Unused, Free} \cup AreaRecord]
              /\ area'[a] = Free
              /\ area'[r] = [area[r] EXCEPT !.next = area[a].next]
              /\ \A b \in Areas \ {a, r} : area'[b] = area[b]
              /\ runs' = Finalize(a)
<1> DEFINE a == call[t].area
           p == po[t]
           before == {r \in ListFrom(pool[p].head) : area[r].next = a}
<1>0. CallAtPlace /\ Typed /\ Lists(start, area, own, rank, Loose)
  BY DEF IInv, Chained
<1>1. Heap(area) /\ a \in Areas
  BY DEF AreaTyped, Heap, ReleaseArea, Using
<1>2. p \in Pools /\ user[p] = t /\ pc[t] = "use"
  BY <1>0 DEF ReleaseArea, Using, OwnPools
<1>3. /\ pool[p] # Free /\ \A u \in Threads : ~Sweeping(u, p)
      /\ \A u \in Threads : pc[u] = "link" /\ po[u] = p => u = t
  BY <1>2, OwnAlone
<1>4. start[p] = pool[p].head
  BY <1>2, <1>3 DEF Chained
<1>5. \A r \in ListFrom(pool[p].head) : r \in Listed(area, Loose) /\ own[r] = p
  BY <1>0, <1>2, <1>4, ListOwned
<1>6. CASE before = {}
  BY <1>6 DEF ReleaseArea
<1>7. CASE before # {}
  <2>1. PICK r : r \in ListFrom(pool[p].head) /\ area[r].next = a
    BY <1>7
  <2>2. r \in Listed(area, Loose) /\ own[r] = p
    BY <2>1, <1>5
  <2>3. r \in Alive(area) /\ a # Null
    BY <2>2, <1>1, NullIsNoAddress DEF Listed
  <2>4. a \in Listed(area, Loose) /\ own[a] = p /\ a # r
    <3>1. area[r].next \in Listed(area, Loose) /\ own[area[r].next] = own[r]
          /\ rank[area[r].next] < rank[r]
      BY <2>1, <2>3, <1>0 DEF Lists
    <3>2. rank \in [Areas -> Nat]
      BY <1>0 DEF Lists
    <3>3. r \in Areas
      BY <2>3 DEF Alive
    <3> QED BY <2>1, <2>2, <3>1, <3>2, <3>3
  <2>5. before = {r}
    <3>1. \A q \in before : q \in Listed(area, Loose) /\ area[q].next = a
      BY <1>5
    <3>2. \A q \in before : q = r
      BY <3>1, <2>1, <2>2, <2>3, <1>0 DEF Lists
    <3> QED BY <3>2, <2>1
  <2>6. \A c \in Loose : area[c].next # a
    <3>1. SUFFICES ASSUME NEW u \in Threads, pc[u] = "link", area[rp[u]].next = a PROVE FALSE
      BY DEF Loose
    <3>2. rp[u] \in Alive(area) /\ own[rp[u]] = po[u]
      BY <3>1, <1>0 DEF Lists, Loose, Chained
    <3>3. own[area[rp[u]].next] = own[rp[u]]
      BY <3>1, <3>2, <2>3, <1>0 DEF Lists
    <3>4. po[u] = p
      BY <3>1, <3>2, <3>3, <2>4
    <3> QED BY <3>1, <3>4, <1>2, <1>3
  <2>7. /\ area' = [[b \in Areas |-> IF b \in before THEN [area[b] EXCEPT !.next = area[a].next]
                                                    ELSE area[b]] EXCEPT ![a] = Free]
        /\ runs' = Finalize(a)
    BY <1>7 DEF ReleaseArea, AreasAround
  <2>8. r \in Areas /\ area[r] \in AreaRecord /\ area[a].next \in Areas \cup {Null}
    BY <2>3, <2>4, <1>1, HeapFields DEF Listed
  <2>9. [area[r] EXCEPT !.next = area[a].next] \in AreaRecord
    BY <2>8, ChangedRecord
  <2>10. /\ area'[a] = Free
         /\ area'[r] = [area[r] EXCEPT !.next = area[a].next]
         /\ \A b \in Areas \ {a, r} : area'[b] = area[b]
    BY <2>4, <2>5, <2>7, <2>8, <1>1
  <2>11. area' \in [Areas -> {Unused, Free} \cup AreaRecord]
    <3>1. \A b \in Areas : area'[b] \in {Unused, Free} \cup AreaRecord
      BY <2>9, <2>10, <1>1 DEF Heap
    <3>2. area' = [b \in Areas |-> area'[b]]
      BY <2>7
    <3> QED BY <3>1, <3>2
  <2> QED BY <2>1, <2>2, <2>4, <2>6, <2>7, <2>10, <2>11
<1> QED BY <1>6, <1>7

\* Areas, the calls that name one and the counts keep their types.
LEMMA AreaTypedStep ==
  ASSUME ~ReleaseAllNamed, IsFiniteSet(Areas), IInv, AreaInv, [Next]_vars
  PROVE  AreaTyped'
<1>0. /\ Typed /\ CallAtPlace /\ TakenDown /\ ReleasedByOne /\ OwnPools /\ AreaTyped
  BY DEF IInv, TableInv, AreaInv
<1>a. PICK start, own, rank : Chained(start, own, rank)
  BY DEF AreaInv
<1>. USE LockingPlaces, NullIsNoAddress DEF table, heap, local, client, lockVars, Goto, NoCall, AreaTyped
<1>1. CASE UNCHANGED vars
  BY <1>0, <1>1 DEF vars
<1>r. ASSUME NEW t \in Threads, Return(t)
      PROVE  /\ rp' \in [Threads -> Areas \cup {Null}]
             /\ \A u \in Threads : call'[u].op = "ReleaseArea" => call'[u].area \in Areas
  BY <1>0, <1>r DEF Return, Typed
<1>f. ASSUME NEW a \in Areas PROVE Finalize(a) \in [Areas -> Nat]
  BY <1>0 DEF Finalize
<1>2. ASSUME NEW t \in Threads, Run(t)
      PROVE  AreaTyped'
  <2>1. CASE LockWrite(t)
    BY <1>0, <2>1 DEF LockWrite
  <2>2. CASE NewPoolNamed(t)
    BY <1>0, <1>r, <2>2 DEF NewPoolNamed
  <2>3. CASE GetPool(t) \/ Unname(t)
    BY <1>0, <2>3 DEF GetPool, Unname
  <2>5. CASE ReleaseAllPool(t)
    BY <1>0, <1>r, <2>5 DEF ReleaseAllPool
  <2>6. CASE UseNull(t)
    BY <1>0, <1>r, <2>6 DEF UseNull
  <2>7. CASE GetArea(t)
    <3>1. PICK a \in Areas : /\ area' = [area EXCEPT ![a] = [next |-> pool[po[t]].head, final |-> FALSE]]
                             /\ rp' = [rp EXCEPT ![t] = a]
      BY <2>7 DEF GetArea
    <3>2. pool[po[t]].head \in Areas \cup {Null}
      BY <1>0, <2>7 DEF GetArea, Using, Typed, PoolRecord
    <3>3. PICK q : q = [next |-> pool[po[t]].head, final |-> FALSE]
      OBVIOUS
    <3>4. q \in AreaRecord
      BY <3>2, <3>3 DEF AreaRecord
    <3>5. area' \in [Areas -> {Unused, Free} \cup AreaRecord]
      BY <1>0, <3>1, <3>3, <3>4
    <3>. QED BY <1>0, <2>7, <3>1, <3>5 DEF GetArea
  <2>8. CASE Link(t)
    BY <1>0, <1>r, <2>8 DEF Link
  <2>9. CASE ReleaseArea(t)
    <3>1. \/ UNCHANGED <<area, runs>>
          \/ \E a \in Areas : /\ area' \in [Areas -> {Unused, Free} \cup AreaRecord]
                              /\ runs' = Finalize(a)
      <4>1. Listed(area, Loose) \subseteq Areas
        BY DEF Listed, Alive
      <4>. QED BY <4>1, <1>0, <1>a, <2>9, ReleasedArea
    <3>2. Return(t) /\ UNCHANGED armed
      BY <2>9 DEF ReleaseArea
    <3>. QED BY <1>0, <1>r, <1>f, <3>1, <3>2
  <2>10. CASE ReleasePool(t)
    <3>1. po[t] \in Pools /\ pool[po[t]] \in PoolRecord
      BY <1>0, <2>10 DEF ReleasePool, Using, Typed
    <3>2. pool[po[t]].head \in Areas \cup {Null}
      BY <3>1 DEF PoolRecord
    <3>. QED BY <1>0, <2>10, <3>2 DEF ReleasePool
  <2>11. CASE SweepArea(t)
    <3>1. rp[t] \in Areas /\ area[rp[t]] \in AreaRecord
      BY <1>0, <2>11 DEF SweepArea, Live
    <3>2. area[rp[t]].next \in Areas \cup {Null}
      BY <3>1 DEF AreaRecord
    <3>. QED BY <1>0, <1>f, <2>11, <3>1, <3>2 DEF SweepArea
  <2>12. CASE FreePool(t)
    BY <1>0, <1>r, <2>12 DEF FreePool
  <2>13. CASE GoWild(t)
    BY <1>0, <2>13 DEF GoWild
  <2>. QED BY <1>2, <2>1, <2>2, <2>3, <2>5, <2>6, <2>7, <2>8, <2>9, <2>10, <2>11, <2>12, <2>13 DEF Run
<1>3. ASSUME NEW t \in Threads, Client(t)
      PROVE  AreaTyped'
  <2>1. ASSUME NEW n \in Names, CallNewPool(t, n)
        PROVE  AreaTyped'
    BY <1>0, <2>1 DEF CallNewPool, Begin, Typed
  <2>2. ASSUME NEW p \in Pools, NewPoolUnnamed(t, p)
        PROVE  AreaTyped'
    BY <1>0, <2>2 DEF NewPoolUnnamed
  <2>3. ASSUME NEW op \in ByName, NEW n \in Names, NEW a \in Areas \cup {Null}, CallByName(t, op, n, a)
        PROVE  AreaTyped'
    BY <1>0, <2>3 DEF CallByName, Begin, Typed
  <2>4. ASSUME NEW op \in ByName, NEW p \in Pools, NEW a \in Areas \cup {Null}, CallByPool(t, op, p, a)
        PROVE  AreaTyped'
    BY <1>0, <2>4 DEF CallByPool, Begin, Typed
  <2>5. ASSUME NEW a \in Areas, SetFinalizer(t, a)
        PROVE  AreaTyped'
    <3>1. area[a] \in AreaRecord
      BY <1>0, <2>5 DEF SetFinalizer, Live
    <3>2. [area[a] EXCEPT !.final = TRUE] \in AreaRecord
      BY <3>1, ChangedRecord
    <3>. QED BY <1>0, <2>5, <3>2 DEF SetFinalizer
  <2>6. CASE CallReleaseAllPool(t)
    BY <1>0, <2>6 DEF CallReleaseAllPool, Begin, Typed
  <2>7. CASE InitPool(t)
    BY <1>0, <2>7 DEF InitPool
  <2>. QED BY <1>3, <2>1, <2>2, <2>3, <2>4, <2>5, <2>6, <2>7 DEF Client, ByName
<1>. QED BY <1>1, <1>2, <1>3 DEF Next

\* An area is freed in the step that runs its finalizer, if it has one.
LEMMA FreedOnce ==
  ASSUME AreaTyped, Finals, NEW a \in Areas, Live(a), area'[a] = Free,
         \A b \in Areas \ {a} : /\ area'[b] = Free <=> area[b] = Free
                                /\ area'[b] = Unused <=> area[b] = Unused
                                /\ Live(b) => area'[b].final = area[b].final,
         runs' = Finalize(a), UNCHANGED armed
  PROVE  Finals'
<1>1. runs[a] = 0 /\ (area[a].final <=> a \in armed)
  BY DEF Finals, FinalizedOnce, Live
<1>2. runs'[a] = (IF a \in armed THEN 1 ELSE 0) /\ \A b \in Areas \ {a} : runs'[b] = runs[b]
  <2>1. CASE a \in armed
    <3>1. runs' = [runs EXCEPT ![a] = runs[a] + 1]
      BY <1>1, <2>1 DEF Finalize
    <3>. QED BY <1>1, <2>1, <3>1 DEF AreaTyped
  <2>2. CASE a \notin armed
    BY <1>1, <2>2 DEF Finalize
  <2>. QED BY <2>1, <2>2
<1>3. FinalizedOnce'
  BY <1>2 DEF Finals, FinalizedOnce
<1>4. \A b \in Areas : Live(b)' => b # a /\ Live(b)
  BY DEF Live
<1>5. \A b \in Areas : Live(b)' => (area'[b].final <=> b \in armed')
  BY <1>4 DEF Finals
<1>6. \A b \in Areas : area'[b] = Unused => b \notin armed'
  BY FreeIsNoArea DEF Finals
<1>. QED BY <1>3, <1>5, <1>6 DEF Finals

\* Every step that frees an area runs its finalizer, and no other step runs one.
LEMMA FinalStep ==
  ASSUME ~ReleaseAllNamed, IsFiniteSet(Areas), IInv, AreaInv, [Next]_vars
  PROVE  Finals'
<1>0. /\ Typed /\ CallAtPlace /\ TakenDown /\ ReleasedByOne /\ OwnPools /\ AreaTyped /\ Finals
  BY DEF IInv, TableInv, AreaInv
<1>a. PICK start, own, rank : Chained(start, own, rank)
  BY DEF AreaInv
<1>. USE DEF table, heap, local, client, lockVars
<1>k. ASSUME UNCHANGED <<area, armed, runs>> PROVE Finals'
  BY <1>0, <1>k DEF Finals, FinalizedOnce, Live
<1>1. CASE UNCHANGED vars
  BY <1>1, <1>k DEF vars
<1>2. ASSUME NEW t \in Threads, Run(t)
      PROVE  Finals'
  <2>1. CASE LockWrite(t) \/ NewPoolNamed(t) \/ GetPool(t) \/ Unname(t)
    BY <1>k, <2>1 DEF LockWrite, NewPoolNamed, GetPool, Unname
  <2>5. CASE ReleaseAllPool(t) \/ UseNull(t) \/ Link(t) \/ ReleasePool(t)
    BY <1>k, <2>5 DEF ReleaseAllPool, UseNull, Link, ReleasePool
  <2>6. CASE FreePool(t) \/ GoWild(t)
    BY <1>k, <2>6 DEF FreePool, GoWild
  <2>7. CASE GetArea(t)
    <3>1. PICK a \in Areas : /\ area[a] = Unused
                             /\ area' = [area EXCEPT ![a] = [next |-> pool[po[t]].head, final |-> FALSE]]
      BY <2>7 DEF GetArea
    <3>2. pool[po[t]].head \in Areas \cup {Null}
      BY <1>0, <2>7 DEF GetArea, Using, Typed, PoolRecord
    <3>3. PICK q : q = [next |-> pool[po[t]].head, final |-> FALSE]
      OBVIOUS
    <3>n. q \in AreaRecord /\ q.final = FALSE
      BY <3>2, <3>3 DEF AreaRecord
    <3>4. q \in AreaRecord /\ q.final = FALSE /\ q # Unused /\ q # Free
      BY <3>n, FreeIsNoArea DEF AreaRecord
    <3>5. area'[a] = q /\ \A b \in Areas \ {a} : area'[b] = area[b]
      BY <1>0, <3>1, <3>3 DEF AreaTyped
    <3>6. UNCHANGED <<armed, runs>>
      BY <2>7 DEF GetArea
    <3>7. runs[a] = 0 /\ a \notin armed
      BY <1>0, <3>1, FreeIsNoArea DEF Finals, FinalizedOnce
    <3>8. FinalizedOnce'
      BY <1>0, <3>4, <3>5, <3>6, <3>7 DEF Finals, FinalizedOnce
    <3>9. \A b \in Areas : Live(b)' => (area'[b].final <=> b \in armed')
      BY <1>0, <3>4, <3>5, <3>6, <3>7 DEF Finals, Live
    <3>10. \A b \in Areas : area'[b] = Unused => b \notin armed'
      BY <1>0, <3>4, <3>5, <3>6 DEF Finals
    <3>. QED BY <3>8, <3>9, <3>10 DEF Finals
  <2>9. CASE ReleaseArea(t)
    <3>1. CASE UNCHANGED <<area, runs>>
      BY <1>k, <2>9, <3>1 DEF ReleaseArea
    <3>2. CASE ~UNCHANGED <<area, runs>>
      <4>1. PICK a, r \in Listed(area, Loose) :
              /\ area'[a] = Free /\ a # r
              /\ area'[r] = [area[r] EXCEPT !.next = area[a].next]
              /\ \A b \in Areas \ {a, r} : area'[b] = area[b]
              /\ runs' = Finalize(a)
        BY <1>0, <1>a, <2>9, <3>2, ReleasedArea
      <4>2. a \in Areas /\ r \in Areas /\ a \in Alive(area) /\ r \in Alive(area)
        BY DEF Listed, Alive
      <4>h. Heap(area)
        BY <1>0 DEF AreaTyped, Heap
      <4>3. area[r] \in AreaRecord /\ area[a].next \in Areas \cup {Null} /\ Live(a)
        BY <4>2, <4>h, HeapFields, AliveIsLive
      <4>4. area'[r] \in AreaRecord /\ area'[r].final = area[r].final
        <5>1. PICK x \in Areas \cup {Null} : x = area[a].next
          BY <4>3
        <5>2. /\ [area[r] EXCEPT !.next = x] \in AreaRecord
              /\ [area[r] EXCEPT !.next = x].final = area[r].final
          BY <4>3, ChangedRecord
        <5>3. area'[r] = [area[r] EXCEPT !.next = x]
          BY <4>1, <5>1
        <5>. QED BY <5>2, <5>3
      <4>5. \A b \in Areas \ {a} : /\ area'[b] = Free <=> area[b] = Free
                                   /\ area'[b] = Unused <=> area[b] = Unused
                                   /\ Live(b) => area'[b].final = area[b].final
        BY <4>1, <4>3, <4>4, FreeIsNoArea DEF AreaRecord
      <4>6. UNCHANGED armed
        BY <2>9 DEF ReleaseArea
      <4>. QED BY <1>0, <4>1, <4>2, <4>3, <4>5, <4>6, FreedOnce
    <3>. QED BY <3>1, <3>2
  <2>11. CASE SweepArea(t)
    <3>1. rp[t] \in Areas /\ Live(rp[t])
      BY <1>0, <2>11 DEF SweepArea, AreaTyped
    <3>2. area'[rp[t]] = Free /\ \A b \in Areas \ {rp[t]} : area'[b] = area[b]
      BY <1>0, <2>11, <3>1 DEF SweepArea, AreaTyped
    <3>3. runs' = Finalize(rp[t]) /\ UNCHANGED armed
      BY <2>11 DEF SweepArea
    <3>. QED BY <1>0, <3>1, <3>2, <3>3, FreedOnce
  <2>. QED BY <1>2, <2>1, <2>5, <2>6, <2>7, <2>9, <2>11 DEF Run
<1>3. ASSUME NEW t \in Threads, Client(t)
      PROVE  Finals'
  <2>1. ASSUME NEW a \in Areas, SetFinalizer(t, a)
        PROVE  Finals'
    <3>1. area[a] \in AreaRecord /\ area[a] # Free /\ area[a] # Unused
      BY <1>0, <2>1 DEF SetFinalizer, Live, AreaTyped
    <3>2. PICK q : q = [area[a] EXCEPT !.final = TRUE]
      OBVIOUS
    <3>3. q \in AreaRecord /\ q.final /\ q # Free /\ q # Unused
      BY <3>1, <3>2, ChangedRecord, FreeIsNoArea DEF AreaRecord
    <3>4. area'[a] = q /\ \A b \in Areas \ {a} : area'[b] = area[b]
      BY <1>0, <2>1, <3>2 DEF SetFinalizer, AreaTyped
    <3>5. armed' = armed \cup {a} /\ UNCHANGED runs
      BY <2>1 DEF SetFinalizer
    <3>6. FinalizedOnce'
      BY <1>0, <3>1, <3>3, <3>4, <3>5 DEF Finals, FinalizedOnce
    <3>7. \A b \in Areas : Live(b)' => (area'[b].final <=> b \in armed')
      BY <1>0, <3>3, <3>4, <3>5 DEF Finals, Live
    <3>8. \A b \in Areas : area'[b] = Unused => b \notin armed'
      BY <1>0, <3>3, <3>4, <3>5 DEF Finals
    <3>. QED BY <3>6, <3>7, <3>8 DEF Finals
  <2>2. CASE \E n \in Names : CallNewPool(t, n)
    BY <1>k, <2>2 DEF CallNewPool
  <2>3. CASE \E p \in Pools : NewPoolUnnamed(t, p)
    BY <1>k, <2>3 DEF NewPoolUnnamed
  <2>4. CASE \E op \in ByName, n \in Names, a \in Areas \cup {Null} : CallByName(t, op, n, a)
    BY <1>k, <2>4 DEF CallByName
  <2>5. CASE \E op \in ByName, p \in Pools, a \in Areas \cup {Null} : CallByPool(t, op, p, a)
    BY <1>k, <2>5 DEF CallByPool
  <2>6. CASE CallReleaseAllPool(t) \/ InitPool(t)
    BY <1>k, <2>6 DEF CallReleaseAllPool, InitPool
  <2>. QED BY <1>3, <2>1, <2>2, <2>3, <2>4, <2>5, <2>6 DEF Client, ByName
<1>. QED BY <1>1, <1>2, <1>3 DEF Next

\* A step that leaves the lists, the first areas of the pools and the threads
\* that link or sweep alone; a pool it makes is empty.
LEMMA ChainedKept ==
  ASSUME Typed, CallAtPlace, ReleasedByOne,
         NEW start, NEW own, NEW rank, Chained(start, own, rank),
         Lists(start, area', own, rank, Loose),
         Alive(area') \subseteq Alive(area),
         \A a \in Loose : area'[a].next = area[a].next,
         \A p \in Pools : \/ pool[p] = Free /\ (pool'[p] = Free \/ pool'[p].head = Null)
                          \/ /\ pool[p] # Free /\ pool'[p] # Free
                             /\ pool'[p].head = pool[p].head,
         \A t \in Threads : /\ pc'[t] = "link" <=> pc[t] = "link"
                            /\ pc'[t] = "sweep" <=> pc[t] = "sweep"
                            /\ pc[t] \in {"link", "sweep"} => po'[t] = po[t] /\ rp'[t] = rp[t]
  PROVE  Chained(start, own, rank)'
<1>1. Loose' = Loose
  BY DEF Loose
<1>2. Alive(area) \subseteq Areas /\ \A a \in Alive(area) : own[a] \in Pools /\ pool[own[a]] # Free
  BY DEF Chained, Lists, Alive
<1>3. \A a \in Alive(area') : pool'[own[a]] # Free
  BY <1>2
<1>4. \A t \in Threads : pc'[t] = "sweep" => start[po'[t]] = rp'[t]
  BY DEF Chained
<1>5. ASSUME NEW p \in Pools, pool'[p] # Free, \A t \in Threads : ~Sweeping(t, p)'
      PROVE  start[p] = pool'[p].head
  <2>1. \A t \in Threads : ~Sweeping(t, p)
    BY <1>5 DEF Sweeping
  <2>2. CASE pool[p] # Free
    BY <2>1, <2>2 DEF Chained
  <2>3. CASE pool[p] = Free
    <3>1. start[p] # Null => start[p] \in Alive(area) /\ own[start[p]] = p
      BY DEF Chained, Lists, Listed
    <3>. QED BY <3>1, <1>2, <1>5, <2>3
  <2>. QED BY <2>2, <2>3
<1>6. ASSUME NEW t \in Threads, pc'[t] = "link"
      PROVE  own[rp'[t]] = po'[t] /\ area'[rp'[t]].next = pool'[po'[t]].head
  <2>1. /\ pc[t] = "link" /\ po'[t] = po[t] /\ rp'[t] = rp[t] /\ rp[t] \in Loose
    BY <1>6 DEF Loose
  <2>2. rp[t] \in Alive(area) /\ own[rp[t]] = po[t] /\ area[rp[t]].next = pool[po[t]].head
    BY <2>1 DEF Chained, Lists
  <2>. QED BY <1>2, <2>1, <2>2
<1>7. \A t, u \in Threads : pc'[t] = "link" /\ pc'[u] = "link" /\ rp'[t] = rp'[u] => t = u
  BY DEF Chained
<1>. QED BY <1>1, <1>3, <1>4, <1>5, <1>6, <1>7 DEF Chained

\* Who links an area does so for a pool he still has; a pool that is swept was
\* given back, and one thread sweeps it.
LEMMA AtWork ==
  ASSUME IInv, OwnPools
  PROVE  /\ \A t \in Threads : pc[t] = "link" => po[t] \in Pools /\ user[po[t]] = t
         /\ \A t \in Threads : pc[t] = "sweep" =>
              /\ po[t] \in Pools /\ pool[po[t]] # Free /\ user[po[t]] = Null
              /\ call[t].op = "ReleasePool"
         /\ \A t, u \in Threads : pc[t] = "sweep" /\ pc[u] = "sweep" /\ po[t] = po[u] => t = u
         /\ \A t, u \in Threads : pc[t] = "sweep" /\ pc[u] = "link" => po[t] # po[u]
<1>0. CallAtPlace /\ ReleasedByOne
  BY DEF IInv, TableInv
<1>1. \A t \in Threads : pc[t] = "link" => po[t] \in Pools /\ user[po[t]] = t
  BY <1>0 DEF CallAtPlace, OwnPools
<1>2. \A t \in Threads : pc[t] = "sweep" =>
        Releasing(t) /\ Target(t) = po[t] /\ call[t].op = "ReleasePool"
  BY <1>0 DEF CallAtPlace, Releasing, Target
<1>. QED BY <1>0, <1>1, <1>2, NullIsNoAddress DEF ReleasedByOne

\* _GetArea allocates an area that leads to the first one of its list.
LEMMA ChainGetArea ==
  ASSUME IsFiniteSet(Areas), IInv, OwnPools, AreaTyped,
         NEW start, NEW own, NEW rank, Chained(start, own, rank),
         NEW t \in Threads, GetArea(t)
  PROVE  \E s, o, r : Chained(s, o, r)' /\ \A b \in Alive(area) : o[b] = own[b]
<1>p. PICK p : p = po[t]
  OBVIOUS
<1>0. Typed /\ Lists(start, area, own, rank, Loose) /\ Heap(area)
  BY DEF IInv, Chained, AreaTyped, Heap
<1>1. p \in Pools /\ user[p] = t /\ pc[t] = "use"
  BY <1>p DEF GetArea, Using, OwnPools
<1>2. pool[p] # Free /\ \A u \in Threads : ~Sweeping(u, p)
  BY <1>1, OwnAlone
<1>3. start[p] = pool[p].head
  BY <1>1, <1>2 DEF Chained
<1>4. PICK a \in Areas : /\ area[a] = Unused
                         /\ area' = [area EXCEPT ![a] = [next |-> start[p], final |-> FALSE]]
                         /\ rp' = [rp EXCEPT ![t] = a]
  BY <1>3, <1>p DEF GetArea
<1>5. UNCHANGED <<pool, po>> /\ pc' = [pc EXCEPT ![t] = "link"]
  BY DEF GetArea, Goto
<1>b. PICK br : br = area'
  OBVIOUS
<1>c. /\ br[a] \in AreaRecord /\ br[a].next = start[p]
      /\ \A b \in Areas \ {a} : br[b] = area[b]
  <2>1. PICK x : x = [next |-> start[p], final |-> FALSE]
    OBVIOUS
  <2>2. start[p] \in Areas \cup {Null}
    BY <1>0, <1>1 DEF Lists
  <2>3. x \in AreaRecord /\ x.next = start[p]
    BY <2>1, <2>2 DEF AreaRecord
  <2>. QED BY <1>0, <1>4, <1>b, <2>1, <2>3 DEF Heap
<1>6. PICK o, r : /\ Lists(start, area', o, r, Loose \cup {a})
                  /\ o[a] = p /\ \A b \in Areas \ {a} : o[b] = own[b]
  <2>1. area[a] = Unused
    BY <1>4
  <2>2. \E ow, ra : /\ Lists(start, br, ow, ra, Loose \cup {a})
                    /\ ow[a] = p /\ \A b \in Areas \ {a} : ow[b] = own[b]
    BY <1>0, <1>1, <1>c, <2>1, AllocatedLists
  <2>. QED BY <1>b, <2>2
<1>7. /\ a \notin Alive(area) /\ Loose \subseteq Alive(area) /\ Alive(area) \subseteq Areas
      /\ \A b \in Areas \ {a} : area'[b] = area[b]
  BY <1>0, <1>4 DEF Lists, Alive, Heap
<1>8. /\ pc'[t] = "link" /\ rp'[t] = a
      /\ \A u \in Threads \ {t} : pc'[u] = pc[u] /\ rp'[u] = rp[u]
  BY <1>0, <1>4, <1>5 DEF Typed, AreaTyped
<1>9. Loose' = Loose \cup {a}
  BY <1>1, <1>8 DEF Loose
<1>10. \A b \in Alive(area') : b = a \/ b \in Alive(area)
  BY <1>7 DEF Alive
<1>11. \A b \in Alive(area') : pool'[o[b]] # Free
  BY <1>2, <1>5, <1>6, <1>7, <1>10 DEF Chained
<1>12. \A u \in Threads : pc'[u] = "sweep" => start[po'[u]] = rp'[u]
  BY <1>5, <1>8 DEF Chained
<1>13. ASSUME NEW q \in Pools, pool'[q] # Free, \A u \in Threads : ~Sweeping(u, q)'
       PROVE  start[q] = pool'[q].head
  <2>1. \A u \in Threads : ~Sweeping(u, q)
    BY <1>1, <1>5, <1>8, <1>p, <1>13 DEF Sweeping
  <2>. QED BY <2>1, <1>5, <1>13 DEF Chained
<1>14. ASSUME NEW u \in Threads, pc'[u] = "link"
       PROVE  o[rp'[u]] = po'[u] /\ area'[rp'[u]].next = pool'[po'[u]].head
  <2>1. CASE u = t
    <3>1. area'[a].next = start[p]
      BY <1>b, <1>c
    <3>. QED BY <2>1, <3>1, <1>p, <1>3, <1>5, <1>6, <1>8
  <2>2. CASE u # t
    <3>1. pc[u] = "link" /\ rp'[u] = rp[u] /\ rp[u] \in Loose
      BY <2>2, <1>8, <1>14 DEF Loose
    <3>2. rp[u] \in Areas \ {a}
      BY <3>1, <1>7
    <3>3. own[rp[u]] = po[u] /\ area[rp[u]].next = pool[po[u]].head
      BY <3>1 DEF Chained
    <3>. QED BY <3>1, <3>2, <3>3, <1>5, <1>6, <1>7
  <2>. QED BY <2>1, <2>2
<1>15. \A u \in Threads \ {t} : pc'[u] = "link" => rp'[u] # a
  BY <1>7, <1>8 DEF Loose
<1>16. \A u, v \in Threads : pc'[u] = "link" /\ pc'[v] = "link" /\ rp'[u] = rp'[v] => u = v
  BY <1>8, <1>15 DEF Chained
<1>17. Chained(start, o, r)'
  BY <1>6, <1>9, <1>11, <1>12, <1>13, <1>14, <1>16 DEF Chained
<1>18. \A b \in Alive(area) : o[b] = own[b]
  BY <1>6, <1>7
<1>. QED BY <1>17, <1>18

\* It becomes the first one itself.
LEMMA ChainLink ==
  ASSUME IsFiniteSet(Areas), IInv, OwnPools, AreaTyped,
         NEW start, NEW own, NEW rank, Chained(start, own, rank),
         NEW t \in Threads, Link(t)
  PROVE  \E s, o, r : Chained(s, o, r)' /\ \A b \in Alive(area) : o[b] = own[b]
<1>p. PICK p, a : p = po[t] /\ a = rp[t]
  OBVIOUS
<1>s. PICK s : s = [start EXCEPT ![p] = a]
  OBVIOUS
<1>0. Typed /\ Lists(start, area, own, rank, Loose) /\ Heap(area)
  BY DEF IInv, Chained, AreaTyped, Heap
<1>1. p \in Pools /\ user[p] = t /\ pc[t] = "link" /\ a \in Loose
  BY <1>p, AtWork DEF Link, Loose
<1>2. /\ pool[p] # Free /\ \A u \in Threads : ~Sweeping(u, p)
      /\ \A u \in Threads : pc[u] = "link" /\ po[u] = p => u = t
  BY <1>1, OwnAlone
<1>3. own[a] = p /\ area[a].next = pool[p].head /\ start[p] = pool[p].head
  BY <1>p, <1>1, <1>2 DEF Chained
<1>4. Lists(s, area, own, rank, Loose \ {a})
  BY <1>0, <1>1, <1>3, <1>s, LinkedLists
<1>5. /\ UNCHANGED area /\ pc'[t] = "idle"
      /\ \A u \in Threads \ {t} : pc'[u] = pc[u] /\ rp'[u] = rp[u] /\ po'[u] = po[u]
  BY <1>0 DEF Link, Return, Goto, Typed, AreaTyped
<1>6. Loose' = Loose \ {a}
  BY <1>p, <1>1, <1>5 DEF Loose, Chained
<1>7. /\ \A q \in Pools \ {p} : pool'[q] = pool[q]
      /\ pool'[p] # Free /\ pool'[p].head = a
  <2>1. pool[p] \in PoolRecord /\ a \in Areas /\ pool' = [pool EXCEPT ![p] = [pool[p] EXCEPT !.head = a]]
    BY <1>p, <1>0, <1>1, <1>2 DEF Typed, Link
  <2>2. PICK q : q = [pool[p] EXCEPT !.head = a]
    OBVIOUS
  <2>3. q # Free /\ q.head = a
    BY <2>1, <2>2, HeadChanged DEF PoolRecord
  <2>. QED BY <2>1, <2>2, <2>3, <1>0, <1>1 DEF Typed
<1>8. start \in [Pools -> Areas \cup {Null}] /\ \A b \in Alive(area) : own[b] \in Pools
  BY <1>0 DEF Lists
<1>9. s[p] = a /\ \A q \in Pools \ {p} : s[q] = start[q]
  BY <1>s, <1>1, <1>8
<1>10. \A b \in Alive(area') : pool'[own[b]] # Free
  BY <1>5, <1>7, <1>8 DEF Chained
<1>11. ASSUME NEW u \in Threads, pc'[u] = "sweep" PROVE s[po'[u]] = rp'[u]
  <2>1. pc[u] = "sweep" /\ rp'[u] = rp[u] /\ po'[u] = po[u]
    BY <1>5, <1>11
  <2>2. po[u] # p /\ po[u] \in Pools
    BY <2>1, <1>2, AtWork DEF Sweeping
  <2>. QED BY <2>1, <2>2, <1>9 DEF Chained
<1>12. ASSUME NEW q \in Pools, pool'[q] # Free, \A u \in Threads : ~Sweeping(u, q)'
       PROVE  s[q] = pool'[q].head
  <2>1. \A u \in Threads : ~Sweeping(u, q)
    BY <1>p, <1>1, <1>5, <1>12 DEF Sweeping
  <2>. QED BY <2>1, <1>7, <1>9, <1>12 DEF Chained
<1>13. ASSUME NEW u \in Threads, pc'[u] = "link"
       PROVE  own[rp'[u]] = po'[u] /\ area'[rp'[u]].next = pool'[po'[u]].head
  <2>1. u # t /\ pc[u] = "link" /\ rp'[u] = rp[u] /\ po'[u] = po[u]
    BY <1>5, <1>13
  <2>2. po[u] \in Pools \ {p}
    BY <2>1, <1>2, AtWork
  <2>. QED BY <2>1, <2>2, <1>5, <1>7 DEF Chained
<1>14. \A u, v \in Threads : pc'[u] = "link" /\ pc'[v] = "link" /\ rp'[u] = rp'[v] => u = v
  BY <1>5 DEF Chained
<1>15. Chained(s, own, rank)'
  BY <1>4, <1>5, <1>6, <1>10, <1>11, <1>12, <1>13, <1>14 DEF Chained
<1>. QED BY <1>15

\* _ReleasePool frees the first area of the list it sweeps.
LEMMA ChainSweep ==
  ASSUME IsFiniteSet(Areas), IInv, OwnPools, AreaTyped,
         NEW start, NEW own, NEW rank, Chained(start, own, rank),
         NEW t \in Threads, SweepArea(t)
  PROVE  \E s, o, r : Chained(s, o, r)' /\ \A b \in Alive(area) : o[b] = own[b]
<1>p. PICK p, a : p = po[t] /\ a = rp[t]
  OBVIOUS
<1>s. PICK s : s = [start EXCEPT ![p] = area[start[p]].next]
  OBVIOUS
<1>0. Typed /\ Lists(start, area, own, rank, Loose) /\ Heap(area)
  BY DEF IInv, Chained, AreaTyped, Heap
<1>1. pc[t] = "sweep" /\ p \in Pools /\ a # Null /\ start[p] = a
  BY <1>p, AtWork DEF SweepArea, Chained
<1>2. a \in Listed(area, Loose) /\ own[a] = p
  BY <1>0, <1>1 DEF Lists
<1>3. /\ UNCHANGED <<pool, pc, po>> /\ area' = [area EXCEPT ![a] = Free]
      /\ rp' = [rp EXCEPT ![t] = area[a].next]
  BY <1>p DEF SweepArea
<1>4. rp'[t] = area[a].next /\ \A u \in Threads \ {t} : rp'[u] = rp[u]
  BY <1>3 DEF AreaTyped
<1>5. Loose' = Loose
  BY <1>1, <1>3, <1>4 DEF Loose
<1>6. \A c \in Loose : area[c].next # a
  <2>1. SUFFICES ASSUME NEW u \in Threads, pc[u] = "link", area[rp[u]].next = a PROVE FALSE
    BY DEF Loose
  <2>2. rp[u] \in Alive(area) /\ own[rp[u]] = po[u] /\ po[u] # p
    BY <2>1, <1>p, <1>0, <1>1, AtWork DEF Lists, Loose, Chained
  <2>. QED BY <2>1, <2>2, <1>0, <1>1, <1>2 DEF Lists
<1>7. Lists(s, area', own, rank, Loose)
  <2>1. PICK br : br = area'
    OBVIOUS
  <2>2. br = [area EXCEPT ![start[p]] = Free]
    BY <2>1, <1>1, <1>3
  <2>. QED BY <1>0, <1>1, <1>6, <2>1, <2>2, <1>s, SweptLists
<1>8. start \in [Pools -> Areas \cup {Null}] /\ Alive(area') \subseteq Alive(area)
      /\ a \notin Loose /\ \A b \in Areas \ {a} : area'[b] = area[b]
  BY <1>0, <1>2, <1>3 DEF Lists, Alive, Listed, Heap
<1>9. s[p] = area[a].next /\ \A q \in Pools \ {p} : s[q] = start[q]
  BY <1>s, <1>1, <1>8
<1>10. \A b \in Alive(area') : pool'[own[b]] # Free
  BY <1>3, <1>8 DEF Chained
<1>11. ASSUME NEW u \in Threads, pc'[u] = "sweep" PROVE s[po'[u]] = rp'[u]
  <2>1. CASE u = t
    BY <2>1, <1>p, <1>3, <1>4, <1>9
  <2>2. CASE u # t
    <3>1. po[u] \in Pools \ {p} /\ pc[u] = "sweep"
      BY <2>2, <1>p, <1>1, <1>3, <1>11, AtWork
    <3>. QED BY <2>2, <3>1, <1>3, <1>4, <1>9 DEF Chained
  <2>. QED BY <2>1, <2>2
<1>12. ASSUME NEW q \in Pools, pool'[q] # Free, \A u \in Threads : ~Sweeping(u, q)'
       PROVE  s[q] = pool'[q].head
  <2>1. \A u \in Threads : ~Sweeping(u, q)
    BY <1>3, <1>12 DEF Sweeping
  <2>2. q # p
    BY <2>1, <1>p, <1>1 DEF Sweeping
  <2>. QED BY <2>1, <2>2, <1>3, <1>9, <1>12 DEF Chained
<1>13. ASSUME NEW u \in Threads, pc'[u] = "link"
       PROVE  own[rp'[u]] = po'[u] /\ area'[rp'[u]].next = pool'[po'[u]].head
  <2>1. u # t /\ pc[u] = "link" /\ rp'[u] = rp[u] /\ po'[u] = po[u] /\ rp[u] \in Loose
    BY <1>1, <1>3, <1>4, <1>13 DEF Loose
  <2>2. rp[u] \in Areas \ {a}
    BY <2>1, <1>0, <1>8 DEF Lists, Alive
  <2>. QED BY <2>1, <2>2, <1>3, <1>8 DEF Chained
<1>14. \A u, v \in Threads : pc'[u] = "link" /\ pc'[v] = "link" /\ rp'[u] = rp'[v] => u = v
  BY <1>1, <1>3, <1>4 DEF Chained
<1>15. Chained(s, own, rank)'
  BY <1>5, <1>7, <1>10, <1>11, <1>12, <1>13, <1>14 DEF Chained
<1>. QED BY <1>15

\* A pool is freed when its list is empty and nobody is about to link to it.
LEMMA ChainFree ==
  ASSUME IsFiniteSet(Areas), IInv, OwnPools, AreaTyped,
         NEW start, NEW own, NEW rank, Chained(start, own, rank),
         NEW t \in Threads, FreePool(t)
  PROVE  Chained(start, own, rank)'
<1> DEFINE p == po[t]
<1>0. Typed /\ Lists(start, area, own, rank, Loose) /\ Heap(area)
  BY DEF IInv, Chained, AreaTyped, Heap
<1>1. pc[t] = "sweep" /\ p \in Pools /\ start[p] = Null /\ call[t].op = "ReleasePool"
  BY AtWork DEF FreePool, Chained
<1>2. /\ UNCHANGED area /\ pool' = [pool EXCEPT ![p] = Free] /\ Return(t)
  BY <1>1 DEF FreePool
<1>3. /\ pc'[t] = "idle"
      /\ \A u \in Threads \ {t} : pc'[u] = pc[u] /\ rp'[u] = rp[u] /\ po'[u] = po[u]
  BY <1>0, <1>2 DEF Return, Goto, Typed, AreaTyped
<1>4. Loose' = Loose
  BY <1>1, <1>3 DEF Loose
<1>5. pool'[p] = Free /\ \A q \in Pools \ {p} : pool'[q] = pool[q]
  BY <1>0, <1>1, <1>2 DEF Typed
<1>6. \A u \in Threads : pc[u] = "link" => po[u] \in Pools \ {p} /\ own[rp[u]] = po[u]
  BY <1>1, AtWork DEF Chained
<1>7. \A b \in Alive(area) : own[b] \in Pools \ {p}
  <2>1. \A b \in Listed(area, Loose) : own[b] # p
    BY <1>0, <1>1, NoneListed
  <2>2. \A b \in Loose : own[b] # p
    BY <1>6 DEF Loose
  <2>. QED BY <2>1, <2>2, <1>0 DEF Lists, Listed
<1>. HIDE DEF p
<1>8. \A b \in Alive(area') : pool'[own[b]] # Free
  BY <1>2, <1>5, <1>7 DEF Chained
<1>9. \A u \in Threads : pc'[u] = "sweep" => start[po'[u]] = rp'[u]
  BY <1>3 DEF Chained
<1>10. ASSUME NEW q \in Pools, pool'[q] # Free, \A u \in Threads : ~Sweeping(u, q)'
       PROVE  start[q] = pool'[q].head
  <2>1. q # p
    BY <1>5, <1>10
  <2>2. \A u \in Threads : ~Sweeping(u, q)
    BY <2>1, <1>3, <1>10 DEF Sweeping, p
  <2>. QED BY <2>1, <2>2, <1>5, <1>10 DEF Chained
<1>11. ASSUME NEW u \in Threads, pc'[u] = "link"
       PROVE  own[rp'[u]] = po'[u] /\ area'[rp'[u]].next = pool'[po'[u]].head
  BY <1>2, <1>3, <1>5, <1>6, <1>11 DEF Chained
<1>12. \A u, v \in Threads : pc'[u] = "link" /\ pc'[v] = "link" /\ rp'[u] = rp'[v] => u = v
  BY <1>3 DEF Chained
<1>. QED BY <1>0, <1>2, <1>4, <1>8, <1>9, <1>10, <1>11, <1>12 DEF Chained

\* A pool without a name is swept from its first area on.
LEMMA ChainRelease ==
  ASSUME IInv, OwnPools, AreaTyped, NEW start, NEW own, NEW rank, Chained(start, own, rank),
         NEW t \in Threads, ReleasePool(t), pool[po[t]].name = Null
  PROVE  Chained(start, own, rank)'
<1>0. Typed /\ CallAtPlace /\ ReleasedByOne /\ Lists(start, area, own, rank, Loose)
  BY DEF IInv, TableInv, Chained
<1>1. /\ pc[t] = "use" /\ Releasing(t) /\ Target(t) = po[t] /\ po[t] \in Pools /\ pool[po[t]] # Free
  BY <1>0 DEF ReleasePool, Using, CallAtPlace, Releasing, Target, ReleasedByOne, ByName
<1>2. \A u \in Threads : ~Sweeping(u, po[t])
  <2>1. \A u \in Threads : Sweeping(u, po[t]) => Releasing(u) /\ Target(u) = po[t]
    BY <1>0 DEF CallAtPlace, Releasing, Target, Sweeping
  <2>. QED BY <1>0, <1>1, <2>1 DEF ReleasedByOne, Sweeping
<1>3. start[po[t]] = pool[po[t]].head
  BY <1>1, <1>2 DEF Chained
<1>4. /\ UNCHANGED <<pool, area, po>>
      /\ pc'[t] = "sweep" /\ rp'[t] = start[po[t]]
      /\ \A u \in Threads \ {t} : pc'[u] = pc[u] /\ rp'[u] = rp[u]
  BY <1>0, <1>3 DEF ReleasePool, Goto, heap, Typed, AreaTyped
<1>5. Loose' = Loose
  BY <1>1, <1>4 DEF Loose
<1>6. Lists(start, area', own, rank, Loose')
  BY <1>0, <1>4, <1>5
<1>7. \A u \in Threads : pc'[u] = "sweep" => start[po'[u]] = rp'[u]
  BY <1>4 DEF Chained
<1>8. ASSUME NEW q \in Pools, pool'[q] # Free, \A u \in Threads : ~Sweeping(u, q)'
      PROVE  start[q] = pool'[q].head
  <2>1. \A u \in Threads : ~Sweeping(u, q)
    BY <1>1, <1>4, <1>8 DEF Sweeping
  <2>. QED BY <2>1, <1>4, <1>8 DEF Chained
<1>9. \A u \in Threads : pc'[u] = "link" =>
        own[rp'[u]] = po'[u] /\ area'[rp'[u]].next = pool'[po'[u]].head
  BY <1>4 DEF Chained
<1>10. \A u, v \in Threads : pc'[u] = "link" /\ pc'[v] = "link" /\ rp'[u] = rp'[v] => u = v
  BY <1>4 DEF Chained
<1>11. \A b \in Alive(area') : pool'[own[b]] # Free
  BY <1>4 DEF Chained
<1>. QED BY <1>6, <1>7, <1>8, <1>9, <1>10, <1>11 DEF Chained

\* What ChainedKept needs of the threads and of the pools.
ThreadsStay ==
  \A t \in Threads : /\ pc'[t] = "link" <=> pc[t] = "link"
                     /\ pc'[t] = "sweep" <=> pc[t] = "sweep"
                     /\ pc[t] \in {"link", "sweep"} => po'[t] = po[t] /\ rp'[t] = rp[t]

HeadsStay ==
  \A p \in Pools : \/ pool[p] = Free /\ (pool'[p] = Free \/ pool'[p].head = Null)
                   \/ pool[p] # Free /\ pool'[p] # Free /\ pool'[p].head = pool[p].head

\* After every step the areas are on lists again.
LEMMA ChainStep ==
  ASSUME ~ReleaseAllNamed, IsFiniteSet(Areas), IInv, AreaInv, [Next]_vars,
         NEW start, NEW own, NEW rank, Chained(start, own, rank)
  PROVE  \E s, o, r : Chained(s, o, r)' /\ \A b \in Alive(area) : o[b] = own[b]
<1>0. /\ Typed /\ CallAtPlace /\ TableAgrees /\ TakenDown /\ ReleasedByOne /\ OwnPools /\ AreaTyped
  BY DEF IInv, TableInv, AreaInv
<1>b. Lists(start, area, own, rank, Loose) /\ Heap(area)
  BY <1>0 DEF Chained, AreaTyped, Heap
<1>. USE LockingPlaces DEF table, heap, local, client, lockVars, Goto, NoCall
<1>k. ASSUME UNCHANGED area, HeadsStay, ThreadsStay
      PROVE  Chained(start, own, rank)'
  <2>1. Lists(start, area', own, rank, Loose)
    BY <1>b, <1>k
  <2>2. Alive(area') \subseteq Alive(area) /\ \A a \in Loose : area'[a].next = area[a].next
    BY <1>k
  <2>. QED BY <1>0, <1>k, <2>1, <2>2, ChainedKept DEF HeadsStay, ThreadsStay
<1>p. ASSUME UNCHANGED pool PROVE HeadsStay
  BY <1>p DEF HeadsStay
<1>n. ASSUME NEW p \in Pools, pool[p] = Free, NEW n,
             pool' = [pool EXCEPT ![p] = [name |-> n, head |-> Null]]
      PROVE  HeadsStay
  BY <1>0, <1>n DEF HeadsStay, Typed
<1>1. CASE UNCHANGED vars
  <2>1. HeadsStay /\ ThreadsStay /\ UNCHANGED area
    BY <1>1, <1>p DEF vars, ThreadsStay
  <2>. QED BY <1>k, <2>1
<1>2. ASSUME NEW t \in Threads, Run(t)
      PROVE  \E s, o, r : Chained(s, o, r)' /\ \A b \in Alive(area) : o[b] = own[b]
  <2>1. CASE LockWrite(t)
    <3>1. ThreadsStay
      BY <1>0, <2>1 DEF LockWrite, Lk!QueueWriter, Lk!AdmitWriter, Typed, ThreadsStay
    <3>. QED BY <1>k, <1>p, <2>1, <3>1 DEF LockWrite
  <2>2. CASE NewPoolNamed(t)
    <3>1. ThreadsStay /\ UNCHANGED area
      BY <1>0, <2>2 DEF NewPoolNamed, Return, Typed, ThreadsStay
    <3>2. HeadsStay
      BY <1>n, <1>p, <2>2 DEF NewPoolNamed
    <3>. QED BY <1>k, <3>1, <3>2
  <2>3. CASE GetPool(t)
    <3>1. ThreadsStay
      BY <1>0, <2>3 DEF GetPool, Typed, ThreadsStay
    <3>. QED BY <1>k, <1>p, <2>3, <3>1 DEF GetPool
  <2>4. CASE Unname(t)
    <3>1. ThreadsStay /\ UNCHANGED area
      BY <1>0, <2>4 DEF Unname, Typed, ThreadsStay
    <3>2. pool' = [pool EXCEPT ![po[t]] = [pool[po[t]] EXCEPT !.name = Null]]
      BY <2>4 DEF Unname, FreedName
    <3>3. \A p \in Pools : p # po[t] => pool'[p] = pool[p]
      BY <1>0, <3>2 DEF Typed
    <3>4. po[t] \in Pools /\ pool[po[t]] \in PoolRecord
      BY <1>0, <2>4 DEF Unname, CallAtPlace, ReleasedByOne, Releasing, Target, Typed
    <3>5. PICK q : q = [pool[po[t]] EXCEPT !.name = Null]
      OBVIOUS
    <3>6. q # Free /\ q.head = pool[po[t]].head
      BY <3>4, <3>5, NameRemoved DEF PoolRecord
    <3>7. pool'[po[t]] = q
      BY <1>0, <3>2, <3>4, <3>5 DEF Typed
    <3>8. HeadsStay
      BY <2>4, <3>3, <3>6, <3>7 DEF HeadsStay, Unname
    <3>. QED BY <1>k, <3>1, <3>8
  <2>5. CASE ReleaseAllPool(t)
    <3>1. ThreadsStay
      BY <1>0, <2>5 DEF ReleaseAllPool, Return, Typed, ThreadsStay
    <3>. QED BY <1>k, <1>p, <2>5, <3>1 DEF ReleaseAllPool
  <2>6. CASE UseNull(t)
    <3>1. ThreadsStay
      BY <1>0, <2>6 DEF UseNull, Return, Typed, ThreadsStay
    <3>. QED BY <1>k, <1>p, <2>6, <3>1 DEF UseNull
  <2>7. CASE GetArea(t)
    BY <1>0, <2>7, ChainGetArea
  <2>8. CASE Link(t)
    BY <1>0, <2>8, ChainLink
  <2>9. CASE ReleaseArea(t)
    <3>1. ThreadsStay /\ UNCHANGED pool
      BY <1>0, <2>9 DEF ReleaseArea, Using, Return, Typed, ThreadsStay
    <3>2. CASE UNCHANGED area
      BY <1>k, <1>p, <3>1, <3>2
    <3>3. CASE ~UNCHANGED area
      <4>1. PICK a, r \in Listed(area, Loose) :
              /\ area[r].next = a /\ a # r
              /\ \A c \in Loose : area[c].next # a
              /\ area' \in [Areas -> {Unused, Free} \cup AreaRecord]
              /\ area'[a] = Free
              /\ area'[r] = [area[r] EXCEPT !.next = area[a].next]
              /\ \A b \in Areas \ {a, r} : area'[b] = area[b]
        BY <1>0, <2>9, <3>3, ReleasedArea
      <4>2. PICK br : br = area'
        OBVIOUS
      <4>3. /\ area[r] \in AreaRecord /\ area[a].next \in Areas \cup {Null}
            /\ a \notin Loose /\ r \notin Loose /\ a \in Areas /\ r \in Areas
            /\ Loose \subseteq Alive(area)
        BY <1>b, HeapFields DEF Listed, Alive, Lists
      <4>4. br[r] \in AreaRecord /\ br[r].next = area[a].next
        <5>1. PICK x \in Areas \cup {Null} : x = area[a].next
          BY <4>3
        <5>2. /\ [area[r] EXCEPT !.next = x] \in AreaRecord
              /\ [area[r] EXCEPT !.next = x].next = x
          <6>1. area[r] \in AreaRecord
            BY <4>3
          <6>. QED BY <6>1, ChangedRecord
        <5>3. br[r] = [area[r] EXCEPT !.next = x]
          BY <4>1, <4>2, <5>1
        <5>. QED BY <5>1, <5>2, <5>3
      <4>5. Lists(start, br, own, rank, Loose)
        <5>1. /\ area[r].next = a
              /\ \A c \in Loose : area[c].next # a
              /\ br \in [Areas -> {Unused, Free} \cup AreaRecord] /\ br[a] = Free
              /\ \A b \in Areas \ {a, r} : br[b] = area[b]
          BY <4>1, <4>2
        <5>. QED BY <1>b, <4>4, <5>1, UnlinkedLists
      <4>6. Alive(area') \subseteq Alive(area) /\ \A c \in Loose : area'[c].next = area[c].next
        BY <4>1, <4>3 DEF Alive, Listed
      <4>7. HeadsStay
        BY <1>p, <3>1
      <4>8. Lists(start, area', own, rank, Loose)
        BY <4>2, <4>5
      <4>. QED BY <1>0, <3>1, <4>6, <4>7, <4>8, ChainedKept DEF HeadsStay, ThreadsStay
    <3>. QED BY <3>2, <3>3
  <2>10. CASE ReleasePool(t)
    <3>1. CASE pool[po[t]].name # Null
      <4>1. ThreadsStay
        BY <1>0, <2>10, <3>1 DEF ReleasePool, Using, Typed, ThreadsStay
      <4>. QED BY <1>k, <1>p, <2>10, <4>1 DEF ReleasePool
    <3>2. CASE pool[po[t]].name = Null
      BY <1>0, <2>10, <3>2, ChainRelease
    <3>. QED BY <3>1, <3>2
  <2>11. CASE SweepArea(t)
    BY <1>0, <2>11, ChainSweep
  <2>12. CASE FreePool(t)
    BY <1>0, <2>12, ChainFree
  <2>13. CASE GoWild(t)
    <3>1. pc'[t] = "wild"
      BY <1>0, <2>13 DEF GoWild, Typed
    <3>. QED BY <3>1, WildStep DEF NoUseAfterRelease
  <2>. QED BY <1>2, <2>1, <2>2, <2>3, <2>4, <2>5, <2>6, <2>7, <2>8, <2>9, <2>10, <2>11, <2>12, <2>13 DEF Run
<1>3. ASSUME NEW t \in Threads, Client(t)
      PROVE  Chained(start, own, rank)'
  <2>1. ASSUME NEW n \in Names, CallNewPool(t, n)
        PROVE  Chained(start, own, rank)'
    <3>1. ThreadsStay
      BY <1>0, <2>1 DEF CallNewPool, Begin, Typed, ThreadsStay
    <3>. QED BY <1>k, <1>p, <2>1, <3>1 DEF CallNewPool
  <2>2. ASSUME NEW p \in Pools, NewPoolUnnamed(t, p)
        PROVE  Chained(start, own, rank)'
    <3>1. ThreadsStay /\ HeadsStay /\ UNCHANGED area
      BY <1>n, <2>2 DEF NewPoolUnnamed, ThreadsStay
    <3>. QED BY <1>k, <3>1
  <2>3. ASSUME NEW op \in ByName, NEW n \in Names, NEW a \in Areas \cup {Null}, CallByName(t, op, n, a)
        PROVE  Chained(start, own, rank)'
    <3>1. ThreadsStay
      BY <1>0, <2>3 DEF CallByName, Begin, Typed, ThreadsStay
    <3>. QED BY <1>k, <1>p, <2>3, <3>1 DEF CallByName
  <2>4. ASSUME NEW op \in ByName, NEW p \in Pools, NEW a \in Areas \cup {Null}, CallByPool(t, op, p, a)
        PROVE  Chained(start, own, rank)'
    <3>1. ThreadsStay
      BY <1>0, <2>4 DEF CallByPool, Begin, Typed, ThreadsStay
    <3>. QED BY <1>k, <1>p, <2>4, <3>1 DEF CallByPool
  <2>5. ASSUME NEW a \in Areas, SetFinalizer(t, a)
        PROVE  Chained(start, own, rank)'
    <3>1. a \in Alive(area) /\ area[a] \in AreaRecord
      BY <1>0, <2>5, <1>b, AliveIsLive, HeapFields DEF SetFinalizer
    <3>2. PICK q : q = [area[a] EXCEPT !.final = TRUE]
      OBVIOUS
    <3>3. q \in AreaRecord /\ q.next = area[a].next /\ q # Free /\ q # Unused
      BY <3>1, <3>2, ChangedRecord, FreeIsNoArea DEF AreaRecord
    <3>4. area'[a] = q /\ \A b \in Areas \ {a} : area'[b] = area[b]
      BY <1>b, <2>5, <3>2 DEF SetFinalizer, Heap
    <3>5. Alive(area') = Alive(area) /\ \A b \in Alive(area) : area'[b].next = area[b].next
      BY <3>1, <3>3, <3>4 DEF Alive
    <3>6. PICK br : br = area'
      OBVIOUS
    <3>7. Lists(start, br, own, rank, Loose)
      BY <1>b, <3>5, <3>6, MarkedLists
    <3>8. Lists(start, area', own, rank, Loose) /\ Loose \subseteq Alive(area)
      BY <3>6, <3>7, <1>b DEF Lists
    <3>9. HeadsStay /\ ThreadsStay
      BY <1>p, <2>5 DEF SetFinalizer, ThreadsStay
    <3>. QED BY <1>0, <3>5, <3>8, <3>9, ChainedKept DEF HeadsStay, ThreadsStay
  <2>6. CASE CallReleaseAllPool(t)
    <3>1. ThreadsStay
      BY <1>0, <2>6 DEF CallReleaseAllPool, Begin, Typed, ThreadsStay
    <3>. QED BY <1>k, <1>p, <2>6, <3>1 DEF CallReleaseAllPool
  <2>7. CASE InitPool(t)
    BY <1>k, <1>p, <2>7 DEF InitPool, ThreadsStay
  <2>. QED BY <1>3, <2>1, <2>2, <2>3, <2>4, <2>5, <2>6, <2>7 DEF Client, ByName
<1>. QED BY <1>1, <1>2, <1>3 DEF Next

\* A step that gives no area out leaves those of the clients alone.
LEMMA GivenKept ==
  ASSUME AreaTyped, GivenBack, NEW own, GivenOwned(own), NEW o,
         \A b \in Alive(area) : o[b] = own[b],
         given' = [a \in Areas |-> given'[a]],
         \A a \in Areas : given'[a] # Null =>
           given'[a] = given[a] /\ user'[given[a]] # Null /\ a \in Alive(area'),
         \A t \in Threads : call'[t].op = "ReleaseArea" =>
           \/ call'[t] = call[t]
           \/ call'[t].area \in Areas /\ given[call'[t].area] # Null /\ given'[call'[t].area] = Null,
         \A a \in Areas : area[a] # Unused => area'[a] # Unused /\ (a \notin Loose => a \notin Loose')
  PROVE  GivenBack' /\ GivenOwned(o)'
<1>1. \A a \in Areas : given[a] # Null => a \in Alive(area) /\ area[a] # Unused /\ a \notin Loose
  BY DEF GivenOwned, Listed, Alive
<1>2. ASSUME NEW t \in Threads, call'[t].op = "ReleaseArea"
      PROVE  /\ given'[call'[t].area] = Null
             /\ area'[call'[t].area] # Unused /\ call'[t].area \notin Loose'
  <2>1. CASE call'[t] = call[t]
    <3>1. call[t].area \in Areas
      BY <1>2, <2>1 DEF AreaTyped
    <3>2. given[call[t].area] = Null /\ area[call[t].area] # Unused /\ call[t].area \notin Loose
      BY <1>2, <2>1 DEF GivenBack
    <3>. QED BY <2>1, <3>1, <3>2
  <2>2. CASE call'[t] # call[t]
    BY <1>1, <1>2, <2>2
  <2>. QED BY <2>1, <2>2
<1>3. ASSUME NEW a \in Areas, given'[a] # Null
      PROVE  /\ a \in Listed(area', Loose') /\ o[a] = given'[a]
             /\ given'[a] \in Pools /\ user'[given'[a]] # Null
  <2>1. given[a] # Null /\ given'[a] = given[a]
    BY <1>3
  <2>2. own[a] = given[a] /\ given[a] \in Pools /\ a \in Alive(area) /\ area[a] # Unused /\ a \notin Loose
    BY <1>1, <2>1 DEF GivenOwned
  <2>3. a \in Listed(area', Loose')
    BY <1>3, <2>2 DEF Listed
  <2>. QED BY <1>3, <2>1, <2>2, <2>3
<1>. QED BY <1>2, <1>3 DEF GivenBack, GivenOwned

\* Only _GetArea gives an area out, to the maker of a pool, and only what the
\* client gave back, or all of a pool it gave back, is freed.
LEMMA GivenStep ==
  ASSUME ~Shared, ~ReleaseAllNamed, IsFiniteSet(Areas), IInv, AreaInv, [Next]_vars,
         NEW start, NEW own, NEW rank, Chained(start, own, rank), GivenOwned(own),
         NEW o, \A b \in Alive(area) : o[b] = own[b]
  PROVE  GivenBack' /\ GivenOwned(o)'
<1>0. /\ Typed /\ CallAtPlace /\ TableAgrees /\ TakenDown /\ ReleasedByOne
      /\ OwnPools /\ AreaTyped /\ GivenBack
  BY DEF IInv, TableInv, AreaInv
<1>a. \A a \in Areas : given[a] # Null =>
        /\ a \in Alive(area) /\ a \notin Loose /\ own[a] = given[a]
        /\ given[a] \in Pools /\ user[given[a]] # Null
  BY DEF GivenOwned, Listed
<1>b. Lists(start, area, own, rank, Loose) /\ Heap(area)
  BY <1>0 DEF Chained, AreaTyped, Heap
<1>. USE LockingPlaces, NullIsNoAddress DEF table, heap, local, client, lockVars, Goto, NoCall
\* A step that leaves what the clients have alone.
<1>k. ASSUME UNCHANGED given, \A p \in Pools : user[p] # Null => user'[p] # Null,
             \A a \in Areas : given[a] # Null => area'[a] \notin {Unused, Free},
             \A a \in Areas : area[a] # Unused => area'[a] # Unused,
             \A t \in Threads : pc'[t] = "link" /\ rp'[t] \in Areas /\ area[rp'[t]] # Unused
                                  => pc[t] = "link" /\ rp'[t] = rp[t],
             \A t \in Threads : call'[t].op = "ReleaseArea" => call'[t] = call[t]
      PROVE  GivenBack' /\ GivenOwned(o)'
  <2>1. \A a \in Areas : area[a] # Unused /\ a \notin Loose => a \notin Loose'
    BY <1>k DEF Loose
  <2>2. given' = [a \in Areas |-> given'[a]]
    BY <1>0, <1>k DEF GivenBack
  <2>3. \A a \in Areas : given[a] # Null => a \in Alive(area')
    BY <1>k DEF Alive
  <2>. QED BY <1>0, <1>a, <1>k, <2>1, <2>2, <2>3, GivenKept
<1>s. \A a \in Areas : given[a] # Null => area[a] \notin {Unused, Free}
  BY <1>a DEF Alive
<1>1. CASE UNCHANGED vars
  BY <1>1, <1>k, <1>s DEF vars
<1>2. ASSUME NEW t \in Threads, Run(t)
      PROVE  GivenBack' /\ GivenOwned(o)'
  <2>1. CASE LockWrite(t)
    BY <1>0, <1>k, <1>s, <2>1 DEF LockWrite, Lk!QueueWriter, Lk!AdmitWriter, Typed
  <2>2. CASE NewPoolNamed(t)
    <3>1. \A p \in Pools : user[p] # Null => user'[p] # Null
      BY <1>0, <2>2 DEF NewPoolNamed, Typed
    <3>2. UNCHANGED <<given, area>>
      BY <2>2 DEF NewPoolNamed
    <3>3. /\ pc'[t] = "idle" /\ call'[t].op = "none"
          /\ \A u \in Threads \ {t} : pc'[u] = pc[u] /\ rp'[u] = rp[u] /\ call'[u] = call[u]
      BY <1>0, <2>2 DEF NewPoolNamed, Return, Typed, AreaTyped
    <3>. QED BY <1>k, <1>s, <3>1, <3>2, <3>3
  <2>3. CASE GetPool(t)
    BY <1>0, <1>k, <1>s, <2>3 DEF GetPool, Typed
  <2>4. CASE Unname(t)
    BY <1>0, <1>k, <1>s, <2>4 DEF Unname, Typed
  <2>5. CASE ReleaseAllPool(t)
    <3>1. Return(t) /\ UNCHANGED <<heap, client>>
      BY <1>0, <2>5 DEF ReleaseAllPool, TakenDown, NoTable, CallAtPlace
    <3>. QED BY <1>0, <1>k, <1>s, <3>1 DEF Return, Typed, AreaTyped
  <2>6. CASE UseNull(t)
    BY <1>0, <1>k, <1>s, <2>6 DEF UseNull, Return, Typed, AreaTyped
  <2>7. CASE GetArea(t)
    <3>1. PICK a \in Areas : /\ area[a] = Unused
                             /\ area' = [area EXCEPT ![a] = [next |-> pool[po[t]].head, final |-> FALSE]]
                             /\ rp' = [rp EXCEPT ![t] = a]
      BY <2>7 DEF GetArea
    <3>2. \A b \in Areas \ {a} : area'[b] = area[b]
      BY <3>1 DEF AreaTyped
    <3>3. \A u \in Threads \ {t} : pc'[u] = pc[u] /\ rp'[u] = rp[u]
      BY <1>0, <2>7, <3>1 DEF GetArea, Typed
    <3>4. rp'[t] = a
      BY <1>0, <3>1 DEF AreaTyped
    <3>5. UNCHANGED <<given, user, call>>
      BY <2>7 DEF GetArea
    <3>6. \A b \in Areas : area[b] # Unused => area'[b] = area[b]
      BY <3>1, <3>2
    <3>. QED BY <1>k, <1>s, <3>1, <3>3, <3>4, <3>5, <3>6
  <2>8. CASE Link(t)
    <3>1. PICK p, a : p = po[t] /\ a = rp[t]
      OBVIOUS
    <3>2. p \in Pools /\ user[p] = t /\ pc[t] = "link" /\ a \in Loose
      BY <1>0, <2>8, <3>1, AtWork DEF Link, Loose
    <3>3. a \in Areas /\ a \in Alive(area) /\ own[a] = p
      BY <1>b, <3>1, <3>2 DEF Chained, Lists, Alive
    <3>4. /\ UNCHANGED <<area, user>> /\ pc'[t] = "idle" /\ call'[t].op = "none"
          /\ \A u \in Threads \ {t} : pc'[u] = pc[u] /\ rp'[u] = rp[u] /\ call'[u] = call[u]
      BY <1>0, <2>8 DEF Link, Return, Typed, AreaTyped
    <3>5. /\ given' = [given EXCEPT ![a] = p]
          /\ given'[a] = p /\ \A b \in Areas \ {a} : given'[b] = given[b]
      BY <1>0, <2>8, <3>1, <3>3 DEF Link, GivenBack
    <3>6. Loose' = Loose \ {a}
      BY <3>1, <3>2, <3>4 DEF Loose, Chained
    <3>7. \A u \in Threads : call'[u].op = "ReleaseArea" =>
            /\ given'[call'[u].area] = Null
            /\ area'[call'[u].area] # Unused /\ call'[u].area \notin Loose'
      <4>1. SUFFICES ASSUME NEW u \in Threads, call'[u].op = "ReleaseArea"
                     PROVE  /\ given'[call'[u].area] = Null
                            /\ area'[call'[u].area] # Unused /\ call'[u].area \notin Loose'
        OBVIOUS
      <4>2. call'[u] = call[u]
        BY <3>4, <4>1
      <4>3. call[u].area \in Areas /\ given[call[u].area] = Null
            /\ area[call[u].area] # Unused /\ call[u].area \notin Loose
        BY <1>0, <4>1, <4>2 DEF AreaTyped, GivenBack
      <4>4. call[u].area # a
        BY <3>2, <4>3
      <4>. QED BY <3>4, <3>5, <3>6, <4>2, <4>3, <4>4
    <3>8. given' = [b \in Areas |-> given'[b]]
      BY <1>0, <3>5 DEF GivenBack
    <3>9. a \in Listed(area', Loose') /\ o[a] = given'[a] /\ user'[p] # Null
      BY <3>2, <3>3, <3>4, <3>5, <3>6 DEF Listed
    <3>10. ASSUME NEW b \in Areas, given'[b] # Null
           PROVE  /\ b \in Listed(area', Loose') /\ o[b] = given'[b]
                  /\ given'[b] \in Pools /\ user'[given'[b]] # Null
      <4>1. CASE b = a
        BY <3>2, <3>5, <3>9, <4>1
      <4>2. CASE b # a
        BY <1>a, <3>4, <3>5, <3>6, <3>10, <4>2 DEF Listed
      <4>. QED BY <4>1, <4>2
    <3>. QED BY <3>7, <3>8, <3>10 DEF GivenBack, GivenOwned
  <2>9. CASE ReleaseArea(t)
    <3>1. /\ UNCHANGED <<given, user>> /\ pc'[t] = "idle" /\ call'[t].op = "none"
          /\ \A u \in Threads \ {t} : pc'[u] = pc[u] /\ rp'[u] = rp[u] /\ call'[u] = call[u]
      BY <1>0, <2>9 DEF ReleaseArea, Return, Typed, AreaTyped
    <3>2. CASE UNCHANGED <<area, runs>>
      BY <1>k, <1>s, <3>1, <3>2
    <3>3. CASE ~UNCHANGED <<area, runs>>
      <4>1. PICK a, r \in Listed(area, Loose) :
              /\ a = call[t].area
              /\ area'[a] = Free /\ a # r
              /\ area'[r] = [area[r] EXCEPT !.next = area[a].next]
              /\ \A b \in Areas \ {a, r} : area'[b] = area[b]
        BY <1>0, <2>9, <3>3, ReleasedArea
      <4>2. a \in Areas /\ r \in Areas /\ a \in Alive(area) /\ r \in Alive(area)
        BY DEF Listed, Alive
      <4>3. area[r] \in AreaRecord /\ area[a].next \in Areas \cup {Null}
        BY <1>b, <4>2, HeapFields
      <4>4. area'[r] \notin {Unused, Free}
        <5>1. PICK x \in Areas \cup {Null} : x = area[a].next
          BY <4>3
        <5>2. [area[r] EXCEPT !.next = x] \in AreaRecord
          BY <4>3, ChangedRecord
        <5>3. area'[r] = [area[r] EXCEPT !.next = x]
          BY <4>1, <5>1
        <5>. QED BY <5>2, <5>3, FreeIsNoArea DEF AreaRecord
      <4>5. given[a] = Null
        BY <1>0, <2>9, <4>1 DEF ReleaseArea, Using, GivenBack
      <4>6. \A b \in Areas : given[b] # Null => area'[b] \notin {Unused, Free}
        BY <1>s, <4>1, <4>4, <4>5
      <4>7. \A b \in Areas : area[b] # Unused => area'[b] # Unused
        BY <4>1, <4>4, FreeIsNoArea
      <4>. QED BY <1>k, <3>1, <4>6, <4>7
    <3>. QED BY <3>2, <3>3
  <2>10. CASE ReleasePool(t)
    <3>1. /\ UNCHANGED <<given, user, area, call>> /\ pc'[t] # "link"
          /\ \A u \in Threads \ {t} : pc'[u] = pc[u] /\ rp'[u] = rp[u]
      BY <1>0, <2>10 DEF ReleasePool, Typed, AreaTyped
    <3>. QED BY <1>k, <1>s, <3>1
  <2>11. CASE SweepArea(t)
    <3>1. PICK a : a = rp[t]
      OBVIOUS
    <3>2. po[t] \in Pools /\ user[po[t]] = Null /\ pc[t] = "sweep" /\ a # Null /\ start[po[t]] = a
      BY <1>0, <2>11, <3>1, AtWork DEF SweepArea, Chained
    <3>3. own[a] = po[t] /\ a \in Areas
      BY <1>b, <3>2 DEF Lists
    <3>4. given[a] = Null
      BY <1>a, <3>2, <3>3
    <3>5. /\ UNCHANGED <<given, user, call, pc>> /\ area' = [area EXCEPT ![a] = Free]
          /\ \A u \in Threads \ {t} : rp'[u] = rp[u]
      BY <1>0, <2>11, <3>1 DEF SweepArea, AreaTyped
    <3>6. area'[a] = Free /\ \A b \in Areas \ {a} : area'[b] = area[b]
      BY <1>0, <3>3, <3>5 DEF AreaTyped
    <3>. QED BY <1>k, <1>s, <3>2, <3>4, <3>5, <3>6, FreeIsNoArea
  <2>12. CASE FreePool(t)
    <3>1. Return(t) /\ UNCHANGED <<area, client>>
      BY <1>0, <2>12 DEF FreePool, CallAtPlace
    <3>. QED BY <1>0, <1>k, <1>s, <3>1 DEF Return, Typed, AreaTyped
  <2>13. CASE GoWild(t)
    <3>1. pc'[t] = "wild"
      BY <1>0, <2>13 DEF GoWild, Typed
    <3>. QED BY <3>1, WildStep DEF NoUseAfterRelease
  <2>. QED BY <1>2, <2>1, <2>2, <2>3, <2>4, <2>5, <2>6, <2>7, <2>8, <2>9, <2>10, <2>11, <2>12, <2>13 DEF Run
<1>3. ASSUME NEW t \in Threads, Client(t)
      PROVE  GivenBack' /\ GivenOwned(o)'
  <2>1. ASSUME NEW n \in Names, CallNewPool(t, n)
        PROVE  GivenBack' /\ GivenOwned(o)'
    BY <1>0, <1>k, <1>s, <2>1 DEF CallNewPool, Begin, Typed
  <2>2. ASSUME NEW p \in Pools, NewPoolUnnamed(t, p)
        PROVE  GivenBack' /\ GivenOwned(o)'
    BY <1>0, <1>k, <1>s, <2>2 DEF NewPoolUnnamed, Typed
  <2>c. ASSUME NEW op \in ByName, NEW p \in Pools, NEW a \in Areas \cup {Null},
               UNCHANGED <<area, rp>>,
               \A u \in Threads : pc'[u] = "link" => pc[u] = "link",
               \A u \in Threads : \/ call'[u] = call[u]
                                  \/ call'[u].op = op /\ call'[u].area = a,
               a # Null <=> op = "ReleaseArea", a # Null => given[a] = p,
               given' = [b \in Areas |-> IF b = a \/ (op = "ReleasePool" /\ given[b] = p)
                                         THEN Null ELSE given[b]],
               user' = [q \in Pools |-> IF op = "ReleasePool" /\ q = p THEN Null ELSE user[q]]
        PROVE  GivenBack' /\ GivenOwned(o)'
    <3>1. given' = [b \in Areas |-> given'[b]]
      BY <2>c
    <3>2. ASSUME NEW b \in Areas, given'[b] # Null
          PROVE  given'[b] = given[b] /\ user'[given[b]] # Null /\ b \in Alive(area')
      BY <1>a, <2>c, <3>2
    <3>3. ASSUME NEW u \in Threads, call'[u].op = "ReleaseArea", call'[u] # call[u]
          PROVE  /\ call'[u].area \in Areas /\ given[call'[u].area] # Null
                 /\ given'[call'[u].area] = Null
      BY <2>c, <3>3
    <3>4. \A b \in Areas : area[b] # Unused => area'[b] # Unused /\ (b \notin Loose => b \notin Loose')
      BY <2>c DEF Loose
    <3>. QED BY <1>0, <3>1, <3>2, <3>3, <3>4, GivenKept
  <2>3. ASSUME NEW op \in ByName, NEW n \in Names, NEW a \in Areas \cup {Null}, CallByName(t, op, n, a)
        PROVE  GivenBack' /\ GivenOwned(o)'
    <3>1. PICK p \in Pools : user[p] = t /\ pool[p].name = n
      BY <2>3 DEF CallByName, MayUse
    <3>2. hash[n] = p
      BY <1>0, <3>1 DEF ReleasedByOne, TableAgrees
    <3>. QED BY <1>0, <2>3, <2>c, <3>2 DEF CallByName, Begin, Typed
  <2>4. ASSUME NEW op \in ByName, NEW p \in Pools, NEW a \in Areas \cup {Null}, CallByPool(t, op, p, a)
        PROVE  GivenBack' /\ GivenOwned(o)'
    <3>1. user' = [q \in Pools |-> IF op = "ReleasePool" /\ q = p THEN Null ELSE user[q]]
      BY <1>0, <2>4 DEF CallByPool, Typed
    <3>. QED BY <1>0, <2>4, <2>c, <3>1 DEF CallByPool, Begin, Typed
  <2>5. ASSUME NEW a \in Areas, SetFinalizer(t, a)
        PROVE  GivenBack' /\ GivenOwned(o)'
    <3>1. area[a] \in AreaRecord
      BY <1>0, <2>5 DEF SetFinalizer, Live, AreaTyped
    <3>2. PICK q : q = [area[a] EXCEPT !.final = TRUE]
      OBVIOUS
    <3>3. q # Free /\ q # Unused
      BY <3>1, <3>2, ChangedRecord, FreeIsNoArea DEF AreaRecord
    <3>4. area'[a] = q /\ \A b \in Areas \ {a} : area'[b] = area[b]
      BY <1>0, <2>5, <3>2 DEF SetFinalizer, AreaTyped
    <3>5. UNCHANGED <<given, user, call, pc, rp>>
      BY <2>5 DEF SetFinalizer
    <3>. QED BY <1>k, <1>s, <3>3, <3>4, <3>5
  <2>6. CASE CallReleaseAllPool(t)
    BY <1>0, <1>k, <1>s, <2>6 DEF CallReleaseAllPool, Begin, Typed
  <2>7. CASE InitPool(t)
    BY <1>k, <1>s, <2>7 DEF InitPool
  <2>. QED BY <1>3, <2>1, <2>2, <2>3, <2>4, <2>5, <2>6, <2>7 DEF Client, ByName
<1>. QED BY <1>1, <1>2, <1>3 DEF Next

\* malloc has given out nothing yet.
LEMMA AreaInit == ASSUME IsFiniteSet(Areas), Init PROVE AreaInv
<1>1. AreaTyped /\ OwnPools /\ NoUseAfterRelease /\ Finals
  BY FreeIsNoArea DEF Init, AreaTyped, OwnPools, NoUseAfterRelease, Finals, FinalizedOnce, Live, NoCall
<1>2. PICK start, own, rank : /\ start = [p \in Pools |-> Null]
                              /\ own = [a \in Areas |-> Null]
                              /\ rank = [a \in Areas |-> 0]
  OBVIOUS
<1>3. Alive(area) = {} /\ Listed(area, Loose) = {} /\ Loose = {}
  BY DEF Init, Alive, Listed, Loose
<1>4. Lists(start, area, own, rank, Loose)
  BY <1>2, <1>3 DEF Lists
<1>5. Chained(start, own, rank)
  BY <1>2, <1>3, <1>4 DEF Chained, Init
<1>6. GivenBack /\ GivenOwned(own)
  BY DEF Init, GivenBack, GivenOwned, NoCall
<1>. QED BY <1>1, <1>5, <1>6 DEF AreaInv

\* The inductive invariant, beside the one of PoolProofs.
LEMMA AreaInvariant ==
  ASSUME ~Shared, ~ReleaseAllNamed, IsFiniteSet(Areas)
  PROVE  Spec => [](IInv /\ AreaInv)
<1>1. Spec => []IInv
  BY Inductive
<1>2. Init => AreaInv
  BY AreaInit
<1>3. ASSUME IInv, AreaInv, [Next]_vars PROVE AreaInv'
  <2>1. AreaTyped' /\ NoUseAfterRelease' /\ Finals'
    BY <1>3, AreaTypedStep, WildStep, FinalStep
  <2>2. OwnPools'
    BY <1>3, OwnStep DEF AreaInv
  <2>3. PICK start, own, rank : Chained(start, own, rank) /\ GivenOwned(own)
    BY <1>3 DEF AreaInv
  <2>4. PICK s, o, r : Chained(s, o, r)' /\ \A b \in Alive(area) : o[b] = own[b]
    BY <1>3, <2>3, ChainStep
  <2>5. GivenBack' /\ GivenOwned(o)'
    BY <1>3, <2>3, <2>4, GivenStep
  <2>. QED BY <2>1, <2>2, <2>4, <2>5 DEF AreaInv
<1>4. IInv /\ AreaInv /\ [Next]_vars => AreaInv'
  BY <1>3
<1>. QED BY <1>1, <1>2, <1>4, PTL DEF Spec

\* Every area of a pool is on its list: the newest one that is not would be led
\* to by a newer one.
LEMMA AllListed ==
  ASSUME IsFiniteSet(Areas), AreaTyped, NEW start, NEW own, NEW rank,
         Lists(start, area, own, rank, Loose), NEW a \in Listed(area, Loose)
  PROVE  a \in ListFrom(start[own[a]])
<1>1. PICK p : p = own[a]
  OBVIOUS
<1>2. PICK F : F = ListFrom(start[p])
  OBVIOUS
<1>h. Heap(area)
  BY DEF AreaTyped, Heap
<1>3. /\ p \in Pools /\ start \in [Pools -> Areas \cup {Null}] /\ rank \in [Areas -> Nat]
      /\ Listed(area, Loose) \subseteq Alive(area) /\ Alive(area) \subseteq Areas
  BY <1>1 DEF Lists, Listed, Alive
<1>4. start[p] \in Areas
  BY <1>1, <1>3, <1>h, NoneListed
<1>5. \A b \in Areas : Live(b) => area[b].next \in Areas \cup {Null}
  BY <1>h, HeapFields, AliveIsLive
<1>6. /\ start[p] \in F
      /\ \A b \in F : Live(b) /\ area[b].next # Null => area[b].next \in F
  BY <1>2, <1>4, <1>5, ListClosed
<1> DEFINE S == {b \in Listed(area, Loose) : own[b] = p /\ b \notin F}
           T == {rank[b] : b \in S}
<1>7. ASSUME S # {} PROVE FALSE
  <2>1. S \subseteq Areas
    BY <1>3
  <2>2. IsFiniteSet(T)
    <3>1. IsFiniteSet(S)
      BY <2>1, FS_Subset
    <3> HIDE DEF S
    <3>2. PICK f : f = [b \in S |-> rank[b]]
      OBVIOUS
    <3>3. f \in Surjection(S, T)
      BY <3>2 DEF Surjection
    <3> HIDE DEF T
    <3>. QED BY <3>1, <3>3, FS_Surjection
  <2>3. T \subseteq Nat /\ T # {}
    BY <1>3, <1>7, <2>1
  <2>4. PICK n \in T : \A m \in T : m <= n
    <3> HIDE DEF T
    <3>. QED BY <2>2, <2>3, LargestElement
  <2>5. PICK b \in S : \A c \in S : rank[c] <= rank[b]
    BY <2>4
  <2>6. b \in Listed(area, Loose) /\ own[b] = p /\ b \notin F /\ b # start[p]
    BY <1>6
  <2>7. PICK c \in Listed(area, Loose) : area[c].next = b
    BY <2>6 DEF Lists
  <2>8. b # Null /\ c \in Alive(area)
    BY <1>3, <2>6, NullIsNoAddress
  <2>9. own[b] = own[c] /\ rank[b] < rank[c]
    BY <2>7, <2>8 DEF Lists
  <2>10. c \in F => b \in F
    BY <1>3, <1>6, <2>7, <2>8, AliveIsLive
  <2>11. c \in S
    BY <2>6, <2>7, <2>9, <2>10
  <2>12. rank[b] \in Nat /\ rank[c] \in Nat
    BY <1>3, <2>6, <2>8
  <2> HIDE DEF S
  <2>. QED BY <2>5, <2>9, <2>11, <2>12
<1>. QED BY <1>1, <1>2, <1>7

\* What a pool holds is its list.
LEMMA HeldIsList ==
  ASSUME IInv, OwnPools, NEW start, NEW own, NEW rank, Chained(start, own, rank),
         NEW p \in Pools, pool[p] # Free
  PROVE  Held(p) = ListFrom(start[p])
<1> DEFINE sweepers == {t \in Threads : pc[t] = "sweep" /\ po[t] = p}
<1>1. Held(p) = IF sweepers = {} THEN ListFrom(pool[p].head)
                ELSE UNION {ListFrom(rp[t]) : t \in sweepers}
  BY DEF Held
<1>2. CASE sweepers = {}
  <2>1. start[p] = pool[p].head
    BY <1>2 DEF Chained, Sweeping
  <2>. QED BY <1>1, <1>2, <2>1
<1>3. CASE sweepers # {}
  <2>1. PICK t \in Threads : pc[t] = "sweep" /\ po[t] = p
    BY <1>3
  <2>2. sweepers = {t} /\ start[p] = rp[t]
    BY <2>1, AtWork DEF Chained
  <2> HIDE DEF sweepers
  <2>3. UNION {ListFrom(rp[u]) : u \in sweepers} = ListFrom(rp[t])
    BY <2>2
  <2>. QED BY <1>1, <1>3, <2>2, <2>3
<1>. QED BY <1>2, <1>3

\* An area is loose, or on the one list of its own pool.
LEMMA HeldOnce ==
  ASSUME IsFiniteSet(Areas), IInv, AreaInv
  PROVE  OnOneList
<1>0. OwnPools /\ AreaTyped
  BY DEF AreaInv
<1>1. PICK start, own, rank : Chained(start, own, rank)
  BY DEF AreaInv
<1>2. Lists(start, area, own, rank, Loose)
  BY <1>1 DEF Chained
<1>3. SUFFICES ASSUME NEW a \in Areas, Live(a)
               PROVE  Cardinality({p \in Pools : pool[p] # Free /\ a \in Held(p)})
                        + Cardinality({t \in Threads : pc[t] = "link" /\ rp[t] = a}) = 1
  BY DEF OnOneList
<1>4. a \in Alive(area)
  BY <1>3, AliveIsLive
<1>5. PICK P, T : /\ P = {p \in Pools : pool[p] # Free /\ a \in Held(p)}
                  /\ T = {t \in Threads : pc[t] = "link" /\ rp[t] = a}
  OBVIOUS
<1>6. \A p \in P : a \in Listed(area, Loose) /\ own[a] = p
  <2>1. SUFFICES ASSUME NEW p \in P PROVE a \in Listed(area, Loose) /\ own[a] = p
    OBVIOUS
  <2>2. p \in Pools /\ a \in ListFrom(start[p])
    BY <1>0, <1>1, <1>5, HeldIsList
  <2>. QED BY <2>2, <1>2, ListOwned
<1>7. CASE a \in Loose
  <2>1. P = {}
    BY <1>6, <1>7 DEF Listed
  <2>2. PICK u \in Threads : pc[u] = "link" /\ rp[u] = a
    BY <1>7 DEF Loose
  <2>3. T = {u}
    BY <1>1, <1>5, <2>2 DEF Chained
  <2>4. Cardinality(P) = 0 /\ Cardinality(T) = 1
    BY <2>1, <2>3, FS_EmptySet, FS_Singleton
  <2>. QED BY <1>5, <2>4
<1>8. CASE a \notin Loose
  <2>1. T = {}
    BY <1>5, <1>8 DEF Loose
  <2>2. a \in Listed(area, Loose)
    BY <1>4, <1>8 DEF Listed
  <2>3. own[a] \in Pools /\ pool[own[a]] # Free
    BY <1>1, <1>2, <1>4 DEF Chained, Lists
  <2>4. a \in ListFrom(start[own[a]])
    BY <1>0, <1>2, <2>2, AllListed
  <2>5. a \in Held(own[a])
    <3>1. Held(own[a]) = ListFrom(start[own[a]])
      BY <1>0, <1>1, <2>3, HeldIsList
    <3>. QED BY <2>4, <3>1
  <2>6. P = {own[a]}
    BY <1>5, <1>6, <2>3, <2>5
  <2>7. Cardinality(P) = 1 /\ Cardinality(T) = 0
    BY <2>1, <2>6, FS_EmptySet, FS_Singleton
  <2>. QED BY <1>5, <2>7
<1>. QED BY <1>7, <1>8

\* What a client got is on the list of the pool it got it from.
LEMMA GivenHeld ==
  ASSUME IsFiniteSet(Areas), IInv, AreaInv
  PROVE  GivenStays
<1>0. OwnPools /\ AreaTyped
  BY DEF AreaInv
<1>1. PICK start, own, rank : Chained(start, own, rank) /\ GivenOwned(own)
  BY DEF AreaInv
<1>2. Lists(start, area, own, rank, Loose)
  BY <1>1 DEF Chained
<1>3. SUFFICES ASSUME NEW a \in Areas, given[a] # Null
               PROVE  user[given[a]] # Null /\ Live(a) /\ a \in Held(given[a])
  BY DEF GivenStays
<1>4. /\ a \in Listed(area, Loose) /\ a \in Alive(area) /\ own[a] = given[a]
      /\ given[a] \in Pools /\ user[given[a]] # Null
  BY <1>1, <1>3 DEF GivenOwned, Listed
<1>5. pool[given[a]] # Free
  BY <1>1, <1>4 DEF Chained
<1>6. a \in ListFrom(start[own[a]])
  BY <1>0, <1>2, <1>4, AllListed
<1>7. Held(given[a]) = ListFrom(start[given[a]])
  BY <1>0, <1>1, <1>4, <1>5, HeldIsList
<1>8. Live(a)
  BY <1>4, AliveIsLive
<1>. QED BY <1>4, <1>6, <1>7, <1>8

-----------------------------------------------------------------------------
(* The theorems *)

\* In every interleaving of clients that keep to their own pools, GetAreaByName
\* finds the pool its caller made and still has (memory.c:184-213, 302-309).
THEOREM MakersFindTheirPools ==
  ASSUME ~Shared, ~ReleaseAllNamed, IsFiniteSet(Areas)
  PROVE  Spec => []FoundByMaker
<1>1. IInv /\ AreaInv => FoundByMaker
  <2>1. SUFFICES ASSUME OwnPools PROVE FoundByMaker
    BY DEF AreaInv
  <2>. QED BY <2>1, NullIsNoAddress DEF OwnPools, FoundByMaker
<1>. QED BY <1>1, AreaInvariant, PTL

\* Such clients never make _GetArea, _ReleaseArea or _ReleasePool touch memory
\* that was freed, although no lock protects a pool or its list.
THEOREM FreedMemoryIsLeftAlone ==
  ASSUME ~Shared, ~ReleaseAllNamed, IsFiniteSet(Areas)
  PROVE  Spec => []NoUseAfterRelease
<1>1. IInv /\ AreaInv => NoUseAfterRelease
  BY DEF AreaInv
<1>. QED BY <1>1, AreaInvariant, PTL

\* A finalizer runs in the step of _ReleaseArea or _ReleasePool that frees its
\* area, and never again.
THEOREM FinalizersRunOnce ==
  ASSUME ~Shared, ~ReleaseAllNamed, IsFiniteSet(Areas)
  PROVE  Spec => []FinalizedOnce
<1>1. IInv /\ AreaInv => FinalizedOnce
  BY DEF AreaInv, Finals
<1>. QED BY <1>1, AreaInvariant, PTL

\* No area that malloc gave out is lost or shared between pools, in the middle of
\* _GetArea and of _ReleasePool too, and one that a client still has stays
\* allocated, on the list of the pool it came from (memory.c:121-206).
THEOREM EveryAreaIsHeld ==
  ASSUME ~Shared, ~ReleaseAllNamed, IsFiniteSet(Areas)
  PROVE  Spec => []AreasHeld
<1>1. IInv /\ AreaInv => AreasHeld
  BY HeldOnce, GivenHeld DEF AreasHeld
<1>. QED BY <1>1, AreaInvariant, PTL

=============================================================================
