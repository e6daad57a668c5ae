---------------------------- MODULE StartupProofs ----------------------------
(***************************************************************************)
(* Startup for any number of threads, all of which may be first callers,   *)
(* and any number of codecs.                                               *)
(***************************************************************************)
EXTENDS Startup, TLAPS

(* A call that has come to its place, with the hashes it may make or destroy.        *)
CallInv ==
    \A t \in Threads :
        /\ op[t] = "new" => hashes[t] < MaxHashes
        /\ op[t] = "destroy" => hashes[t] > 0
        /\ pc[t] \in {"test", "init", "clear", "find"} => op[t] # "destroy"

(* Nobody comes to the mutex, or holds a hash, before need_init_lock is cleared.     *)
LockInv ==
    need_init_lock =>
        /\ ~made
        /\ \A t \in Threads : pc[t] \notin {"lock", "inside"} /\ hashes[t] = 0

(* A table that is in use or looked into is complete unless its maker is filling it, *)
(* or two threads have filled at once; who fills alone fills its own.                *)
PublishedInv ==
    /\ \A t \in Threads : pc[t] = "fill" => FuncTable # NULL
    /\ \A t \in Threads : pc[t] = "look" => table[t] # NULL
    /\ \A t \in Threads : pc[t] # "fill" => filled[t] = 0
FillersApart == \A t, u \in Threads : pc[t] = "fill" /\ pc[u] = "fill" => t = u
FillsItsOwn ==
    \A t \in Threads : pc[t] = "fill" =>
        FuncTable = t /\ \A i \in 1..filled[t] : Rules[i] \in entries[t]
InUse(m) == m = FuncTable \/ \E t \in Threads : pc[t] = "look" /\ table[t] = m
Complete ==
    \A m \in Threads : InUse(m) /\ pc[m] # "fill" => Known \subseteq entries[m]
TableInv == PublishedInv /\ (~clash => FillersApart /\ FillsItsOwn /\ Complete)

IInv == TypeOK /\ CallInv /\ LockInv /\ TableInv

-----------------------------------------------------------------------------
LEMMA RuleCount == Len(Rules) \in Nat /\ \A i \in 1..Len(Rules) : Rules[i] \in Known
  BY StartupAssumption DEF Known

LEMMA InitInv == Init => IInv
<1>. SUFFICES ASSUME Init PROVE IInv
  OBVIOUS
<1>. USE StartupAssumption, RuleCount DEF Init
<1>1. TypeOK
  <2>1. need_init_lock \in BOOLEAN /\ made \in BOOLEAN /\ clash \in BOOLEAN
    OBVIOUS
  <2>2. lock \in Threads \union {NULL} /\ FuncTable \in Threads \union {NULL}
    OBVIOUS
  <2>4. hashes \in [Threads -> 0..MaxHashes] /\ filled \in [Threads -> 0..Len(Rules)]
    OBVIOUS
  <2>5. entries \in [Threads -> SUBSET Known]
    OBVIOUS
  <2>3. /\ pc \in [Threads -> Places] /\ op \in [Threads -> Ops]
        /\ table \in [Threads -> Threads \union {NULL}] /\ up \in BOOLEAN
    BY DEF Places, Ops
  <2>. QED BY <2>1, <2>2, <2>3, <2>4, <2>5 DEF TypeOK
<1>2. CallInv /\ LockInv
  BY DEF CallInv, LockInv
<1>3. TableInv
  BY DEF TableInv, PublishedInv, FillersApart, FillsItsOwn, Complete, InUse
<1>. QED BY <1>1, <1>2, <1>3 DEF IInv

LEMMA TypeStep ==
    ASSUME TypeOK, CallInv, TableInv, NEW t \in Threads, Step(t)
    PROVE  TypeOK'
<1>. USE StartupAssumption, RuleCount DEF At, hashVars, tableVars, TypeOK, Places, Ops
<1>1. CASE CallNewHash(t)
  BY <1>1 DEF CallNewHash, Enter
<1>2. CASE CallDestroyHashTable(t)
  BY <1>2 DEF CallDestroyHashTable, Enter, NotNull
<1>3. CASE CallGetConvFunc(t)
  BY <1>3 DEF CallGetConvFunc, Enter
<1>4. CASE TestInit(t)
  BY <1>4 DEF TestInit, Goto
<1>5. CASE InitLock(t)
  BY <1>5 DEF InitLock, Goto
<1>6. CASE ClearInit(t)
  BY <1>6 DEF ClearInit, Cleared, Goto
<1>7. CASE Lock(t)
  BY <1>7 DEF Lock, Goto
<1>8. CASE Unlock(t)
  <2>1. hashes' \in [Threads -> 0..MaxHashes]
    <3>1. CASE op[t] = "new"
      BY <1>8, <3>1 DEF Unlock, CallInv
    <3>2. CASE op[t] = "destroy"
      BY <1>8, <3>2 DEF Unlock, CallInv
    <3>3. CASE op[t] \notin {"new", "destroy"}
      BY <1>8, <3>3 DEF Unlock
    <3>. QED BY <3>1, <3>2, <3>3
  <2>2. /\ pc' \in [Threads -> Places] /\ op' \in [Threads -> Ops]
        /\ table' \in [Threads -> Threads \union {NULL}] /\ up' \in BOOLEAN
    BY <1>8 DEF Unlock, Goto, Return
  <2>3. made' \in BOOLEAN
    BY <1>8 DEF Unlock
  <2>. QED BY <1>8, <2>1, <2>2, <2>3 DEF Unlock
<1>9. CASE FindTable(t)
  <2>1. /\ pc' = [pc EXCEPT ![t] = "test"] \/ pc' = [pc EXCEPT ![t] = "look"]
        /\ UNCHANGED <<op, up, hashVars, tableVars>>
    BY <1>9 DEF FindTable, GoLook, Goto
  <2>2. table' = table \/ table' = [table EXCEPT ![t] = FuncTable]
    BY <1>9 DEF FindTable, GoLook
  <2>3. /\ pc' \in [Threads -> Places]
        /\ table' \in [Threads -> Threads \union {NULL}]
    BY <2>1, <2>2
  <2>. QED BY <2>1, <2>3
<1>10. CASE Publish(t)
  BY <1>10 DEF Publish, Goto
<1>11. CASE InsertRule(t)
  <2>1. filled[t] + 1 \in 1..Len(Rules)
    BY <1>11 DEF InsertRule, MoreRules
  <2>2. PICK rule \in Known : rule = Rules[filled[t] + 1]
    BY <2>1
  <2>3. entries' = [entries EXCEPT ![FuncTable] = @ \union {rule}] \/ entries' = entries
    BY <1>11, <2>2 DEF InsertRule
  <2>4. entries' \in [Threads -> SUBSET Known]
    <3>1. FuncTable \in Threads
      BY <1>11 DEF InsertRule, TableInv, PublishedInv
    <3>2. PICK e \in SUBSET Known : e = entries[FuncTable] \union {rule}
      BY <3>1
    <3>3. entries' = [entries EXCEPT ![FuncTable] = e] \/ entries' = entries
      BY <2>3, <3>2
    <3>. QED BY <3>1, <3>3
  <2>5. filled' \in [Threads -> 0..Len(Rules)]
    BY <1>11, <2>1 DEF InsertRule
  <2>. QED BY <1>11, <2>4, <2>5 DEF InsertRule
<1>12. CASE FilledTable(t)
  BY <1>12 DEF FilledTable, GoLook, Goto
<1>13. CASE LookUp(t) \/ Crash(t)
  BY <1>13 DEF LookUp, Crash, Answer, Return, End
<1>. QED BY <1>1, <1>2, <1>3, <1>4, <1>5, <1>6, <1>7, <1>8, <1>9, <1>10, <1>11, <1>12, <1>13 DEF Step

LEMMA LockStep ==
    ASSUME TypeOK, CallInv, LockInv, NEW t \in Threads, Step(t)
    PROVE  CallInv' /\ LockInv'
<1>. USE StartupAssumption DEF At, hashVars, tableVars, TypeOK, CallInv, LockInv
<1>1. CASE CallNewHash(t)
  BY <1>1 DEF CallNewHash, Enter
<1>2. CASE CallDestroyHashTable(t)
  BY <1>2 DEF CallDestroyHashTable, Enter, NotNull
<1>3. CASE CallGetConvFunc(t)
  BY <1>3 DEF CallGetConvFunc, Enter
<1>4. CASE TestInit(t)
  BY <1>4 DEF TestInit, Goto
<1>5. CASE InitLock(t)
  BY <1>5 DEF InitLock, Goto
<1>6. CASE ClearInit(t)
  BY <1>6 DEF ClearInit, Cleared, Goto
<1>7. CASE Lock(t)
  BY <1>7 DEF Lock, Goto
<1>8. CASE Unlock(t)
  <2>1. CASE op[t] = "new"
    <3>1. /\ Return(t) /\ hashes' = [hashes EXCEPT ![t] = @ + 1]
          /\ pc[t] = "inside" /\ UNCHANGED need_init_lock
      BY <1>8, <2>1 DEF Unlock
    <3>. QED BY <3>1 DEF Return
  <2>2. CASE op[t] = "destroy"
    <3>1. /\ Return(t) /\ hashes' = [hashes EXCEPT ![t] = @ - 1]
          /\ pc[t] = "inside" /\ UNCHANGED need_init_lock
      BY <1>8, <2>2 DEF Unlock
    <3>. QED BY <3>1 DEF Return
  <2>3. CASE op[t] \notin {"new", "destroy"}
    <3>1. /\ Goto(t, "publish") /\ hashes' = hashes
          /\ pc[t] = "inside" /\ UNCHANGED need_init_lock
      BY <1>8, <2>3 DEF Unlock
    <3>. QED BY <3>1 DEF Goto
  <2>. QED BY <2>1, <2>2, <2>3
<1>9. CASE FindTable(t)
  <2>1. /\ pc' = [pc EXCEPT ![t] = "test"] \/ pc' = [pc EXCEPT ![t] = "look"]
        /\ pc[t] = "find" /\ op[t] # "destroy" /\ UNCHANGED <<op, hashes, need_init_lock, made>>
    BY <1>9 DEF FindTable, GoLook, Goto
  <2>. QED BY <2>1
<1>10. CASE Publish(t)
  BY <1>10 DEF Publish, Goto
<1>11. CASE InsertRule(t)
  BY <1>11 DEF InsertRule
<1>12. CASE FilledTable(t)
  BY <1>12 DEF FilledTable, GoLook, Goto
<1>13. CASE LookUp(t) \/ Crash(t)
  BY <1>13 DEF LookUp, Crash, Answer, Return, End
<1>. QED BY <1>1, <1>2, <1>3, <1>4, <1>5, <1>6, <1>7, <1>8, <1>9, <1>10, <1>11, <1>12, <1>13 DEF Step

(* A step that neither touches a table nor takes a thread to one or away from it.    *)
ApartFromTables(t) ==
    /\ UNCHANGED <<FuncTable, entries, clash, filled, table>>
    /\ \A u \in Threads : /\ pc'[u] = "fill" <=> pc[u] = "fill"
                          /\ pc'[u] = "look" => pc[u] = "look"

LEMMA ApartStep ==
    ASSUME TypeOK, TableInv, NEW t \in Threads, ApartFromTables(t)
    PROVE  TableInv'
<1>. USE DEF ApartFromTables
<1>1. PublishedInv'
  BY DEF TableInv, PublishedInv
<1>2. ASSUME ~clash'
      PROVE  FillersApart' /\ FillsItsOwn' /\ Complete'
  <2>1. FillersApart /\ FillsItsOwn /\ Complete
    BY <1>2 DEF TableInv
  <2>2. FillersApart' /\ FillsItsOwn'
    BY <2>1 DEF FillersApart, FillsItsOwn
  <2>3. \A m \in Threads : InUse(m)' => InUse(m)
    BY DEF InUse
  <2>4. Complete'
    BY <2>1, <2>3 DEF Complete
  <2>. QED BY <2>2, <2>4
<1>. QED BY <1>1, <1>2 DEF TableInv

LEMMA TableStep ==
    ASSUME TypeOK, TableInv, NEW t \in Threads, Step(t)
    PROVE  TableInv'
<1>. USE StartupAssumption, RuleCount DEF At, hashVars, tableVars, TypeOK
<1>1. CASE CallNewHash(t) \/ CallDestroyHashTable(t) \/ CallGetConvFunc(t)
  <2>1. ApartFromTables(t)
    BY <1>1 DEF CallNewHash, CallDestroyHashTable, CallGetConvFunc, Enter, ApartFromTables
  <2>. QED BY <2>1, ApartStep
<1>2. CASE TestInit(t) \/ InitLock(t) \/ ClearInit(t) \/ Lock(t)
  <2>1. ApartFromTables(t)
    BY <1>2 DEF TestInit, InitLock, ClearInit, Cleared, Lock, Goto, ApartFromTables
  <2>. QED BY <2>1, ApartStep
<1>3. CASE Unlock(t)
  <2>1. /\ pc[t] = "inside" /\ UNCHANGED <<FuncTable, entries, clash, filled>>
        /\ Return(t) \/ (Goto(t, "publish") /\ UNCHANGED table)
    BY <1>3 DEF Unlock
  <2>2. CASE Goto(t, "publish") /\ UNCHANGED table
    <3>1. ApartFromTables(t)
      BY <2>1, <2>2 DEF Goto, ApartFromTables
    <3>. QED BY <3>1, ApartStep
  <2>3. CASE Return(t)
    BY <2>1, <2>3 DEF Return, TableInv, PublishedInv, FillersApart, FillsItsOwn, Complete, InUse
  <2>. QED BY <2>1, <2>2, <2>3
<1>4. CASE FindTable(t)
  <2>1. CASE FuncTable = NULL
    <3>1. ApartFromTables(t)
      BY <1>4, <2>1 DEF FindTable, Goto, ApartFromTables
    <3>. QED BY <3>1, ApartStep
  <2>2. CASE FuncTable # NULL
    <3>1. /\ pc[t] = "find" /\ pc' = [pc EXCEPT ![t] = "look"]
          /\ table' = [table EXCEPT ![t] = FuncTable]
          /\ UNCHANGED <<FuncTable, entries, clash, filled>>
      BY <1>4, <2>2 DEF FindTable, GoLook, Goto
    <3>2. PublishedInv'
      BY <2>2, <3>1 DEF TableInv, PublishedInv
    <3>3. ASSUME ~clash'
          PROVE  FillersApart' /\ FillsItsOwn' /\ Complete'
      <4>1. FillersApart /\ FillsItsOwn /\ Complete
        BY <3>1, <3>3 DEF TableInv
      <4>2. \A m \in Threads : InUse(m)' => InUse(m)
        BY <3>1 DEF InUse
      <4>. QED BY <3>1, <4>1, <4>2 DEF FillersApart, FillsItsOwn, Complete
    <3>. QED BY <3>2, <3>3 DEF TableInv
  <2>. QED BY <2>1, <2>2
<1>5. CASE Publish(t)
  <2>1. /\ pc[t] = "publish" /\ pc' = [pc EXCEPT ![t] = "fill"]
        /\ FuncTable' = t /\ entries' = [entries EXCEPT ![t] = {}]
        /\ clash' = (clash \/ Racing(t)) /\ UNCHANGED <<filled, table>>
    BY <1>5 DEF Publish, Goto
  <2>2. PublishedInv'
    BY <2>1 DEF TableInv, PublishedInv
  <2>3. ASSUME ~clash'
        PROVE  FillersApart' /\ FillsItsOwn' /\ Complete'
    <3>1. FillersApart /\ FillsItsOwn /\ Complete /\ ~Racing(t)
      BY <2>1, <2>3 DEF TableInv
    <3>2. \A u \in Threads : pc'[u] = "fill" <=> u = t
      BY <2>1, <3>1 DEF Racing
    <3>3. filled[t] = 0
      BY <2>1 DEF TableInv, PublishedInv
    <3>4. \A m \in Threads \ {t} : InUse(m)' => InUse(m)
      BY <2>1 DEF InUse
    <3>. QED BY <2>1, <3>1, <3>2, <3>3, <3>4 DEF FillersApart, FillsItsOwn, Complete
  <2>. QED BY <2>2, <2>3 DEF TableInv
<1>6. CASE InsertRule(t)
  <2>1. /\ pc[t] = "fill" /\ filled[t] + 1 \in 1..Len(Rules)
        /\ filled' = [filled EXCEPT ![t] = @ + 1]
        /\ UNCHANGED <<FuncTable, clash, pc, table>>
    BY <1>6 DEF InsertRule, MoreRules
  <2>2. PublishedInv'
    BY <2>1 DEF TableInv, PublishedInv
  <2>3. ASSUME ~clash'
        PROVE  FillersApart' /\ FillsItsOwn' /\ Complete'
    <3>1. FillersApart /\ FillsItsOwn /\ Complete
      BY <2>1, <2>3 DEF TableInv
    <3>2. ~Racing(t) /\ FuncTable = t
      BY <2>1, <3>1 DEF Racing, FillersApart, FillsItsOwn
    <3>3. entries' = [entries EXCEPT ![t] = @ \union {Rules[filled[t] + 1]}]
      BY <1>6, <3>2 DEF InsertRule
    <3>4. \A u \in Threads : pc[u] = "fill" <=> u = t
      BY <2>1, <3>1 DEF FillersApart
    <3>5. FillsItsOwn'
      BY <2>1, <3>1, <3>2, <3>3, <3>4 DEF FillsItsOwn
    <3>6. \A m \in Threads : InUse(m)' => InUse(m)
      BY <2>1 DEF InUse
    <3>. QED BY <2>1, <3>1, <3>3, <3>5, <3>6 DEF FillersApart, Complete
  <2>. QED BY <2>2, <2>3 DEF TableInv
<1>7. CASE FilledTable(t)
  <2>1. /\ pc[t] = "fill" /\ filled[t] = Len(Rules)
        /\ pc' = [pc EXCEPT ![t] = "look"] /\ table' = [table EXCEPT ![t] = FuncTable]
        /\ filled' = [filled EXCEPT ![t] = 0] /\ UNCHANGED <<FuncTable, clash, entries>>
    BY <1>7 DEF FilledTable, GoLook, Goto, MoreRules
  <2>2. PublishedInv'
    BY <2>1 DEF TableInv, PublishedInv
  <2>3. ASSUME ~clash'
        PROVE  FillersApart' /\ FillsItsOwn' /\ Complete'
    <3>1. FillersApart /\ FillsItsOwn /\ Complete
      BY <2>1, <2>3 DEF TableInv
    <3>2. FuncTable = t /\ Known \subseteq entries[t]
      BY <2>1, <3>1 DEF FillsItsOwn, Known
    <3>3. \A m \in Threads : InUse(m)' => InUse(m)
      BY <2>1, <3>2 DEF InUse
    <3>. QED BY <2>1, <3>1, <3>2, <3>3 DEF FillersApart, FillsItsOwn, Complete
  <2>. QED BY <2>2, <2>3 DEF TableInv
<1>8. CASE LookUp(t) \/ Crash(t)
  <2>1. /\ UNCHANGED <<FuncTable, entries, clash, filled>>
        /\ (pc[t] = "look" /\ Return(t)) \/ End
    BY <1>8 DEF LookUp, Crash, Answer
  <2>2. CASE End
    <3>1. ApartFromTables(t)
      BY <2>1, <2>2 DEF End, ApartFromTables
    <3>. QED BY <3>1, ApartStep
  <2>3. CASE pc[t] = "look" /\ Return(t)
    BY <2>1, <2>3 DEF Return, TableInv, PublishedInv, FillersApart, FillsItsOwn, Complete, InUse
  <2>. QED BY <2>1, <2>2, <2>3
<1>. QED BY <1>1, <1>2, <1>3, <1>4, <1>5, <1>6, <1>7, <1>8 DEF Step

-----------------------------------------------------------------------------
LEMMA Inductive == Spec => []IInv
<1>1. IInv /\ [Next]_vars => IInv'
  <2>. SUFFICES ASSUME IInv, [Next]_vars PROVE IInv'
    OBVIOUS
  <2>1. CASE UNCHANGED vars
    BY <2>1 DEF vars, hashVars, tableVars, IInv, TypeOK, CallInv, LockInv, TableInv,
         PublishedInv, FillersApart, FillsItsOwn, Complete, InUse
  <2>2. CASE Ended
    BY <2>1, <2>2 DEF Ended
  <2>3. ASSUME NEW t \in Threads, Step(t)
        PROVE  IInv'
    BY <2>3, TypeStep, LockStep, TableStep DEF IInv
  <2>. QED BY <2>1, <2>2, <2>3 DEF Next
<1>. QED BY InitInv, <1>1, PTL DEF Spec

(* The state of the first calls is what it is taken for; in particular no thread     *)
(* destroys a hash it does not hold, whoever makes and destroys hashes beside it.    *)
THEOREM TypeCorrect == Spec => []TypeOK
BY Inductive, PTL DEF IInv

(* Nobody waits for the mutex while somebody may still be told to initialise it, so  *)
(* need_init_lock is clear once a hash has been made.                                *)
LEMMA NoLaterInit ==
    ASSUME IInv, FirstCallsOver, [Next]_vars
    PROVE  FirstCallsOver' /\ \A t \in Threads : ~InitLock(t)
<1>. USE DEF IInv, TypeOK, LockInv, FirstCallsOver, At
<1>1. ~need_init_lock
  OBVIOUS
<1>2. \A t \in Threads : ~InitLock(t)
  BY DEF InitLock
<1>3. CASE UNCHANGED vars
  BY <1>2, <1>3 DEF vars, hashVars
<1>4. CASE Ended
  BY <1>2, <1>4 DEF Ended, vars, hashVars
<1>5. ASSUME NEW t \in Threads, Step(t)
      PROVE  FirstCallsOver'
  <2>1. made'
    BY <1>5 DEF Step, CallNewHash, CallDestroyHashTable, CallGetConvFunc, Enter, TestInit, InitLock,
         ClearInit, Lock, Unlock, FindTable, Publish, InsertRule, FilledTable, LookUp, Crash, hashVars
  <2>2. \A u \in Threads : pc'[u] # "init"
    <3>1. CASE CallNewHash(t) \/ CallDestroyHashTable(t) \/ CallGetConvFunc(t)
      BY <3>1 DEF CallNewHash, CallDestroyHashTable, CallGetConvFunc, Enter
    <3>2. CASE TestInit(t) \/ ClearInit(t) \/ Lock(t)
      BY <1>1, <3>2 DEF TestInit, ClearInit, Lock, Goto
    <3>3. CASE Unlock(t)
      BY <3>3 DEF Unlock, Goto, Return
    <3>4. CASE FindTable(t) \/ Publish(t) \/ FilledTable(t)
      BY <3>4 DEF FindTable, Publish, FilledTable, GoLook, Goto
    <3>5. CASE InsertRule(t) \/ LookUp(t) \/ Crash(t)
      BY <3>5 DEF InsertRule, LookUp, Crash, Answer, Return, End
    <3>. QED BY <1>2, <1>5, <3>1, <3>2, <3>3, <3>4, <3>5 DEF Step
  <2>. QED BY <2>1, <2>2
<1>. QED BY <1>2, <1>3, <1>4, <1>5 DEF Next

LEMMA ExclusionKept ==
    ASSUME TypeOK, Exclusion, [Next]_vars, \A t \in Threads : ~InitLock(t)
    PROVE  Exclusion'
<1>. USE StartupAssumption DEF TypeOK, Exclusion, At, hashVars
<1>1. CASE UNCHANGED vars \/ Ended
  BY <1>1 DEF Ended, vars
<1>2. ASSUME NEW t \in Threads, Step(t)
      PROVE  Exclusion'
  <2>1. CASE CallNewHash(t) \/ CallDestroyHashTable(t) \/ CallGetConvFunc(t)
    BY <2>1 DEF CallNewHash, CallDestroyHashTable, CallGetConvFunc, Enter
  <2>2. CASE TestInit(t) \/ ClearInit(t)
    BY <2>2 DEF TestInit, ClearInit, Goto
  <2>3. CASE Lock(t)
    BY <2>3 DEF Lock, Goto
  <2>4. CASE Unlock(t)
    BY <2>4 DEF Unlock, Goto, Return
  <2>5. CASE FindTable(t) \/ Publish(t) \/ FilledTable(t)
    BY <2>5 DEF FindTable, Publish, FilledTable, GoLook, Goto
  <2>6. CASE InsertRule(t) \/ LookUp(t) \/ Crash(t)
    BY <2>6 DEF InsertRule, LookUp, Crash, Answer, Return, End
  <2>. QED BY <1>2, <2>1, <2>2, <2>3, <2>4, <2>5, <2>6 DEF Step
<1>. QED BY <1>1, <1>2 DEF Next

(* However many threads race in their first calls (hash.c:74-81): once one of them   *)
(* has made a hash and nobody is about to initialise the mutex, it is initialised    *)
(* for good, whoever still holds an old answer of need_init_lock or comes later; and *)
(* once whoever is inside holds it, that stays so.                                   *)
THEOREM MutexSettles == Spec => InitialisedForGood
<1>1. IInv /\ [Next]_vars
        => [FirstCallsOver => FirstCallsOver' /\ (Exclusion => Exclusion')]_vars
  BY NoLaterInit, ExclusionKept DEF IInv
<1>. QED BY <1>1, Inductive, PTL DEF Spec, InitialisedForGood

(* However many first callers replace one another's table (valueconv.c:98-106), as   *)
(* long as no two fill at once every table that somebody looks into is complete      *)
(* unless its maker is still filling it.                                             *)
THEOREM CodecsAreFound == Spec => []KnownFound
<1>1. IInv => KnownFound
  <2>. SUFFICES ASSUME IInv, NEW t \in Threads, ~clash, pc[t] = "look", pc[table[t]] # "fill"
                PROVE  Known \subseteq entries[table[t]]
    BY DEF KnownFound
  <2>1. table[t] \in Threads
    BY DEF IInv, TypeOK, TableInv, PublishedInv
  <2>2. InUse(table[t]) /\ Complete
    BY DEF InUse, IInv, TableInv
  <2>. QED BY <2>1, <2>2 DEF Complete
<1>. QED BY <1>1, Inductive, PTL
=============================================================================
