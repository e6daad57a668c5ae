-------------------------------- MODULE Pool --------------------------------
(***************************************************************************)
(* The memory pools of src/src/memory.c: areas on a linked list that are   *)
(* freed with their pool, finalizers, and the table of named pools under   *)
(* the lock of lock.c, which appears here as the abstract lock.            *)
(*                                                                         *)
(* The table is only touched under its lock, so what a caller does there   *)
(* is one step.  A pool itself is under no lock: _GetArea reads pool->head *)
(* and writes it in two steps, and _ReleasePool frees one area per step.   *)
(* malloc hands an area's address out once, so a stale one is recognised.  *)
(* Definitions marked "Fault" are mistakes that one property catches.      *)
(***************************************************************************)
EXTENDS Naturals, FiniteSets, Functions

CONSTANTS Threads,
          Names,            \* pool names
          Pools, Areas,     \* addresses malloc can return
          Null,
          Free, Unused,     \* memory given back, memory never given out
          Shared,           \* may a thread use the areas of a pool it did not make?
          ReleaseAllNamed   \* may ReleaseAllPool meet a named pool?

ASSUME Flags == Shared \in BOOLEAN /\ ReleaseAllNamed \in BOOLEAN
ASSUME NullIsNoAddress == Null \notin Names \cup Pools \cup Areas \cup Threads
ASSUME FreeIsNoPool == Free \notin [name : Names \cup {Null}, head : Areas \cup {Null}]
ASSUME FreeIsNoArea ==
  /\ Free # Unused
  /\ \A x \in {Free, Unused} : x \notin [next : Areas \cup {Null}, final : BOOLEAN]

VARIABLES up,             \* PoolTable # NULL
          holds, queued,  \* PoolTable->lock
          hash,           \* PoolTable->hash
          pool,           \* the POOL at each address, or Free
          area,           \* the MEMAREA at each address, Unused or Free
          pc, call, po, rp,  \* per thread: place, call in progress, the pool
                             \* and the area it works on
          user,           \* who was given the pool by NewPool and still has it
          given,          \* the pool a client got an area from and still has it
          armed, runs     \* areas given a finalizer; how often it ran

lockVars == <<holds, queued>>
table    == <<up, hash, holds, queued>>
heap     == <<pool, area>>
local    == <<pc, call, po, rp>>
client   == <<user, given, armed>>
vars == <<up, holds, queued, hash, pool, area, pc, call, po, rp, user, given, armed, runs>>

Lk == INSTANCE AbstractRWLock

\* Where LockWrite(PoolTable) is called, and the place it returns to.
Locking == [wantNew |-> "new", wantGet |-> "get", wantUnname |-> "unname", wantAll |-> "all"]
Places == {"idle", "use", "link", "sweep", "wild"} \cup DOMAIN Locking \cup Range(Locking)
Ops == {"NewPool", "GetArea", "ReleaseArea", "ReleasePool", "ReleaseAllPool"}
NoCall == [op |-> "none", name |-> Null, area |-> Null]

Init ==  \* after InitPool
  /\ up = TRUE
  /\ Lk!Init
  /\ hash = [n \in Names |-> Null]
  /\ pool = [p \in Pools |-> Free]
  /\ area = [a \in Areas |-> Unused]
  /\ pc = [t \in Threads |-> "idle"]
  /\ call = [t \in Threads |-> NoCall]
  /\ po = [t \in Threads |-> Null]
  /\ rp = [t \in Threads |-> Null]
  /\ user = [p \in Pools |-> Null]
  /\ given = [a \in Areas |-> Null]
  /\ armed = {}
  /\ runs = [a \in Areas |-> 0]

Goto(t, place) == pc' = [pc EXCEPT ![t] = place]
Live(a) == area[a] \notin {Unused, Free}

\* The call returns; what its locals held is gone.
Return(t) ==
  /\ Goto(t, "idle")
  /\ call' = [call EXCEPT ![t] = NoCall]
  /\ po' = [po EXCEPT ![t] = Null]
  /\ rp' = [rp EXCEPT ![t] = Null]

\* The areas on the list that starts at a.
ListFrom(a) ==
  LET reach[k \in 0..Cardinality(Areas)] ==
        IF k = 0 THEN {a} \ {Null}
        ELSE reach[k - 1] \cup
             ({area[b].next : b \in {c \in reach[k - 1] : Live(c)}} \ {Null})
  IN reach[Cardinality(Areas)]

-----------------------------------------------------------------------------
(* The calls a client makes *)

\* Bounds: a call that allocates starts only if an address is left for it.
MorePools == Cardinality({p \in Pools : pool[p] = Free})
               > Cardinality({u \in Threads : pc[u] \in {"wantNew", "new"}})
MoreAreas == Cardinality({a \in Areas : area[a] = Unused})
               > Cardinality({u \in Threads : /\ call[u].op = "GetArea"
                                              /\ pc[u] \in {"wantGet", "get", "use"}})

\* Nobody uses the table before InitPool, or while it is taken down.
TableUsable == up /\ \A u \in Threads : call[u].op # "ReleaseAllPool"

\* A client works by name on its own pools; Shared lets it work on, but not
\* release, the others'.
MayUse(t, op, n) ==
  IF Shared /\ op # "ReleasePool" THEN hash[n] # Null
  ELSE \E p \in Pools : user[p] = t /\ pool[p].name = n

Begin(t, op, n, a, place) ==
  /\ pc[t] = "idle"
  /\ call' = [call EXCEPT ![t] = [op |-> op, name |-> n, area |-> a]]
  /\ Goto(t, place)

CallNewPool(t, n) ==
  /\ TableUsable /\ MorePools
  /\ Begin(t, "NewPool", n, Null, "wantNew")
  /\ UNCHANGED <<table, heap, po, rp, client, runs>>

\* GetAreaByName, ReleaseAreaByName, ReleasePoolByName: GetPool comes first.
\* A client releases an area once, and gives its handles up with the pool.
CallByName(t, op, n, a) ==
  /\ TableUsable
  /\ op = "GetArea" => MoreAreas
  /\ MayUse(t, op, n)
  /\ a # Null => given[a] = hash[n]
  /\ a # Null <=> op = "ReleaseArea"
  /\ Begin(t, op, n, a, "wantGet")
  /\ given' = [b \in Areas |-> IF \/ b = a
                                  \/ op = "ReleasePool" /\ given[b] = hash[n]
                               THEN Null ELSE given[b]]
  /\ user' = [p \in Pools |-> IF op = "ReleasePool" /\ p = hash[n] THEN Null ELSE user[p]]
  /\ UNCHANGED <<table, heap, po, rp, armed, runs>>

\* GetAreaByPool, ReleaseAreaByPool, ReleasePoolByPool.
CallByPool(t, op, p, a) ==
  /\ user[p] = t
  /\ op = "GetArea" => MoreAreas
  /\ a # Null => given[a] = p
  /\ a # Null <=> op = "ReleaseArea"
  /\ Begin(t, op, Null, a, "use")
  /\ po' = [po EXCEPT ![t] = p]
  /\ given' = [b \in Areas |-> IF b = a \/ (op = "ReleasePool" /\ given[b] = p)
                               THEN Null ELSE given[b]]
  /\ user' = IF op = "ReleasePool" THEN [user EXCEPT ![p] = Null] ELSE user
  /\ UNCHANGED <<table, heap, rp, armed, runs>>

\* The table is taken down by the last thread that uses pools by name.
CallReleaseAllPool(t) ==
  /\ up /\ \A u \in Threads : pc[u] = "idle"
  /\ ReleaseAllNamed \/ \A n \in Names : hash[n] = Null
  /\ Begin(t, "ReleaseAllPool", Null, Null, "wantAll")
  /\ UNCHANGED <<table, heap, po, rp, client, runs>>

SetFinalizer(t, a) ==
  /\ pc[t] = "idle"
  /\ given[a] # Null /\ user[given[a]] = t /\ Live(a) /\ a \notin armed
  /\ area' = [area EXCEPT ![a].final = TRUE]
  /\ armed' = armed \cup {a}
  /\ UNCHANGED <<table, pool, local, user, given, runs>>

InitPool(t) ==
  /\ pc[t] = "idle" /\ ~up
  /\ up' = TRUE
  /\ hash' = [n \in Names |-> Null]
  /\ UNCHANGED <<lockVars, heap, local, client, runs>>

-----------------------------------------------------------------------------
(* Under the lock of the table *)

LockWrite(t) ==
  /\ pc[t] \in DOMAIN Locking
  /\ \/ Lk!QueueWriter(t) /\ UNCHANGED pc
     \/ Lk!AdmitWriter(t) /\ Goto(t, Locking[pc[t]])
  /\ UNCHANGED <<up, hash, heap, call, po, rp, client, runs>>

\* Fault: the name is not looked up first.
TakenNever(n) == FALSE

Taken(n) == hash[n] # Null

\* NewPool: the caller is given a new pool, or NULL if the name is taken.
NewPoolNamed(t) ==
  LET n == call[t].name
  IN /\ pc[t] = "new"
     /\ \/ /\ ~Taken(n)
           /\ \E p \in Pools :
                /\ pool[p] = Free
                /\ pool' = [pool EXCEPT ![p] = [name |-> n, head |-> Null]]
                /\ hash' = [hash EXCEPT ![n] = p]
                /\ user' = [user EXCEPT ![p] = t]
        \/ Taken(n) /\ UNCHANGED <<pool, hash, user>>
     /\ Lk!Leave(t)
     /\ Return(t)
     /\ UNCHANGED <<up, area, given, armed, runs>>

NewPoolUnnamed(t, p) ==
  /\ pc[t] = "idle" /\ MorePools
  /\ pool[p] = Free
  /\ pool' = [pool EXCEPT ![p] = [name |-> Null, head |-> Null]]
  /\ user' = [user EXCEPT ![p] = t]
  /\ UNCHANGED <<table, area, local, given, armed, runs>>

\* Fault: no UnLock.
GetPoolKeepsLock(t) ==
  /\ pc[t] = "get"
  /\ po' = [po EXCEPT ![t] = hash[call[t].name]]
  /\ Goto(t, "use")
  /\ UNCHANGED <<table, heap, call, rp, client, runs>>

GetPool(t) ==
  /\ pc[t] = "get"
  /\ po' = [po EXCEPT ![t] = hash[call[t].name]]
  /\ Lk!Leave(t)
  /\ Goto(t, "use")
  /\ UNCHANGED <<up, hash, heap, call, rp, client, runs>>

\* Fault: the name stays in the table.
HashKeeping(n) == hash

HashWithout(n) == [m \in Names |-> IF m = n THEN Null ELSE hash[m]]

\* xfree leaves NULL in the pointer it frees.
FreedName == Null

\* The locked part of _ReleasePool.
Unname(t) ==
  /\ pc[t] = "unname" /\ pool[po[t]] # Free
  /\ hash' = HashWithout(pool[po[t]].name)
  /\ pool' = [pool EXCEPT ![po[t]].name = FreedName]
  /\ Lk!Leave(t)
  /\ Goto(t, "use")
  /\ UNCHANGED <<up, area, call, po, rp, client, runs>>

\* ReleaseAllPool calls _ReleasePool on each named pool with the lock held.
ReleaseAllPool(t) ==
  /\ pc[t] = "all"
  /\ \/ \E n \in Names :
          /\ hash[n] # Null
          /\ po' = [po EXCEPT ![t] = hash[n]]
          /\ Goto(t, "use")
          /\ UNCHANGED <<up, lockVars, call, rp>>
     \/ /\ \A n \in Names : hash[n] = Null
        /\ up' = FALSE
        /\ Lk!Leave(t)
        /\ Return(t)
  /\ UNCHANGED <<hash, heap, client, runs>>

-----------------------------------------------------------------------------
(* On the pool itself, without a lock *)

Using(t, ops) == pc[t] = "use" /\ call[t].op \in ops /\ po[t] # Null /\ pool[po[t]] # Free

\* The pool was not found, and the call does nothing.
UseNull(t) ==
  /\ pc[t] = "use" /\ po[t] = Null
  /\ Return(t)
  /\ UNCHANGED <<table, heap, client, runs>>

\* _GetArea up to area->next = pool->head ...
GetArea(t) ==
  /\ Using(t, {"GetArea"})
  /\ \E a \in Areas :
       /\ area[a] = Unused
       /\ area' = [area EXCEPT ![a] = [next |-> pool[po[t]].head, final |-> FALSE]]
       /\ rp' = [rp EXCEPT ![t] = a]
  /\ Goto(t, "link")
  /\ UNCHANGED <<table, pool, call, po, client, runs>>

\* ... and from pool->head = area on.
Link(t) ==
  /\ pc[t] = "link" /\ pool[po[t]] # Free
  /\ pool' = [pool EXCEPT ![po[t]].head = rp[t]]
  /\ given' = [given EXCEPT ![rp[t]] = po[t]]
  /\ Return(t)
  /\ UNCHANGED <<table, area, user, armed, runs>>

\* Fault: no finalizer.
FinalizeNever(a) == runs

Finalize(a) == IF area[a].final THEN [runs EXCEPT ![a] = @ + 1] ELSE runs

\* Every area the walk of _ReleaseArea can come to is allocated.
Walkable(p) == \A r \in ListFrom(pool[p].head) : Live(r)

\* Fault: the area is freed and stays on the list.
AreasStillLinked(a, before) == area

\* Fault: the rest of the list is cut off with the area.
AreasCutAt(a, before) ==
  [b \in Areas |-> IF b \in before THEN [area[b] EXCEPT !.next = Null] ELSE area[b]]

\* rp->next = np->next
AreasAround(a, before) ==
  [b \in Areas |-> IF b \in before THEN [area[b] EXCEPT !.next = area[a].next] ELSE area[b]]

\* The walk looks for the area in rp->next, from rp = pool->head on.
ReleaseArea(t) ==
  LET a == call[t].area
      before == {r \in ListFrom(pool[po[t]].head) : area[r].next = a}
  IN /\ Using(t, {"ReleaseArea"}) /\ Walkable(po[t])
     /\ \/ /\ before # {}
           /\ area' = [AreasAround(a, before) EXCEPT ![a] = Free]
           /\ runs' = Finalize(a)
        \/ before = {} /\ UNCHANGED <<area, runs>>
     /\ Return(t)
     /\ UNCHANGED <<table, pool, client>>

ReleasePool(t) ==
  /\ Using(t, {"ReleasePool", "ReleaseAllPool"})
  /\ IF pool[po[t]].name # Null
     THEN Goto(t, "wantUnname") /\ UNCHANGED rp
     ELSE Goto(t, "sweep") /\ rp' = [rp EXCEPT ![t] = pool[po[t]].head]
  /\ UNCHANGED <<table, heap, call, po, client, runs>>

SweepArea(t) ==
  /\ pc[t] = "sweep" /\ rp[t] # Null /\ Live(rp[t])
  /\ rp' = [rp EXCEPT ![t] = area[rp[t]].next]
  /\ runs' = Finalize(rp[t])
  /\ area' = [area EXCEPT ![rp[t]] = Free]
  /\ UNCHANGED <<table, pool, pc, call, po, client>>

FreePool(t) ==
  /\ pc[t] = "sweep" /\ rp[t] = Null
  /\ pool' = [pool EXCEPT ![po[t]] = Free]
  /\ IF call[t].op = "ReleaseAllPool" THEN Goto(t, "all") /\ UNCHANGED <<call, po, rp>>
                                       ELSE Return(t)
  /\ UNCHANGED <<table, area, client, runs>>

\* Memory that was given back to malloc is used: nothing more is known.
GoWild(t) ==
  /\ \/ pc[t] \in {"use", "link", "unname"} /\ po[t] # Null /\ pool[po[t]] = Free
     \/ Using(t, {"ReleaseArea"}) /\ ~Walkable(po[t])
     \/ pc[t] = "sweep" /\ rp[t] # Null /\ ~Live(rp[t])
  /\ Goto(t, "wild")
  /\ UNCHANGED <<table, heap, call, po, rp, client, runs>>

-----------------------------------------------------------------------------
\* What the code does next in a call that has begun.
Run(t) == \/ LockWrite(t)
          \/ NewPoolNamed(t)
          \/ GetPool(t)
          \/ Unname(t)
          \/ ReleaseAllPool(t)
          \/ UseNull(t)
          \/ GetArea(t)
          \/ Link(t)
          \/ ReleaseArea(t)
          \/ ReleasePool(t)
          \/ SweepArea(t)
          \/ FreePool(t)
          \/ GoWild(t)

Client(t) == \/ \E n \in Names : CallNewPool(t, n)
             \/ \E p \in Pools : NewPoolUnnamed(t, p)
             \/ \E op \in {"GetArea", "ReleaseArea", "ReleasePool"},
                   a \in Areas \cup {Null} :
                  \/ \E n \in Names : CallByName(t, op, n, a)
                  \/ \E p \in Pools : CallByPool(t, op, p, a)
             \/ \E a \in Areas : SetFinalizer(t, a)
             \/ CallReleaseAllPool(t)
             \/ InitPool(t)

Next == \E t \in Threads : Run(t) \/ Client(t)

Spec == Init /\ [][Next]_vars

\* A thread inside a call runs on; nobody has to call.
FairSpec == Spec /\ \A t \in Threads : WF_vars(Run(t))

-----------------------------------------------------------------------------
(* Properties *)

TypeOK ==
  /\ up \in BOOLEAN
  /\ holds \in [Threads -> {"none", "write"}] /\ queued \subseteq Threads
  /\ hash \in [Names -> Pools \cup {Null}]
  /\ pool \in [Pools -> {Free} \cup [name : Names \cup {Null}, head : Areas \cup {Null}]]
  /\ area \in [Areas -> {Unused, Free} \cup [next : Areas \cup {Null}, final : BOOLEAN]]
  /\ pc \in [Threads -> Places]
  /\ call \in [Threads -> [op : Ops \cup {"none"}, name : Names \cup {Null}, area : Areas \cup {Null}]]
  /\ po \in [Threads -> Pools \cup {Null}]
  /\ rp \in [Threads -> Areas \cup {Null}]
  /\ user \in [Pools -> Threads \cup {Null}]
  /\ given \in [Areas -> Pools \cup {Null}]
  /\ armed \subseteq Areas
  /\ runs \in [Areas -> Nat]

\* The table and the pools agree in every interleaving of NewPool, GetPool and
\* _ReleasePool: an entry leads to an allocated pool of that name, and a pool
\* that has its name is the one the table finds, so a name has one pool.
TableAgrees ==
  /\ \A n \in Names : hash[n] # Null =>
       pool[hash[n]] # Free /\ pool[hash[n]].name = n
  /\ \A p \in Pools : pool[p] # Free /\ pool[p].name # Null =>
       hash[pool[p].name] = p

\* A client that works by name on the pool it made gets that pool, whatever
\* the other threads do with the name.
FoundByMaker ==
  \A t \in Threads :
    pc[t] = "use" /\ call[t].op = "GetArea" => po[t] # Null /\ user[po[t]] = t

\* The list that starts at pool->head, or at what a sweep has left of it.
Held(p) ==
  LET sweepers == {t \in Threads : pc[t] = "sweep" /\ po[t] = p}
  IN IF sweepers = {} THEN ListFrom(pool[p].head)
     ELSE UNION {ListFrom(rp[t]) : t \in sweepers}

\* Each allocated area is on the list of exactly one pool, or about to be linked
\* by the thread that allocated it, so that releasing the pools frees everything.
OnOneList ==
  \A a \in Areas : Live(a) =>
    Cardinality({p \in Pools : pool[p] # Free /\ a \in Held(p)})
      + Cardinality({t \in Threads : pc[t] = "link" /\ rp[t] = a}) = 1

\* What a client got from a pool stays there, allocated, until the client gives
\* it or the pool up, whatever is released and allocated meanwhile.
GivenStays ==
  \A a \in Areas : given[a] # Null =>
    user[given[a]] # Null /\ Live(a) /\ a \in Held(given[a])

\* No area is lost or shared, and none is lost to the client that uses it.
AreasHeld == OnOneList /\ GivenStays

\* A finalizer runs once, in the step that frees its area: never for an area
\* the client still has, and never twice or not at all for one that is gone.
FinalizedOnce ==
  \A a \in Areas : runs[a] = IF area[a] = Free /\ a \in armed THEN 1 ELSE 0

\* A client that uses only its own pools never makes the library touch memory
\* that was freed, although pools and areas are under no lock.
NoUseAfterRelease == \A t \in Threads : pc[t] # "wild"

\* The table's lock is held by one thread at a time and in its critical
\* sections only: no return, no path that finds nothing and no release of
\* areas leaves it held, as RWLock assumes of its users (memory.c:112-119, 184-251).
LockHeldInside ==
  /\ \A t \in Threads : holds[t] = "write" <=> pc[t] \in Range(Locking)
  /\ \A t, u \in Threads : holds[t] = "write" /\ holds[u] = "write" => t = u

\* ReleaseAllPool comes to an end.
ReleaseAllReturns ==
  \A t \in Threads : pc[t] = "all" ~> pc[t] = "idle"

=============================================================================
