------------------------------ MODULE Startup ------------------------------
(***************************************************************************)
(* What the library sets up at the first call that needs it, by threads    *)
(* that may all be first: the mutex of hash.c and the table of the codecs  *)
(* (valueconv.c).  Each read or write of a global is a step.  What two     *)
(* threads do to one GHashTable at once is undefined: an insertion may be  *)
(* lost, a look-up may miss, the process may end.                          *)
(***************************************************************************)
EXTENDS Naturals, Sequences

CONSTANTS Threads,   \* the threads of the process
          Rules,     \* the names in funcs[], in order
          Unknown,   \* a name that is not there
          MaxHashes, \* bound: hashes a thread holds at once
          NULL       \* no thread, no table

Known == {Rules[i] : i \in DOMAIN Rules}
Names == Known \union {Unknown}

ASSUME StartupAssumption ==
    /\ NULL \notin Threads
    /\ Rules \in Seq(STRING) /\ Unknown \notin Known
    /\ MaxHashes \in Nat

VARIABLES
    need_init_lock, \* as in hash.c
    lock,           \* the thread that holds the mutex of hash.c, NULL if none does
    hashes,         \* how many hashes each thread holds
    made,           \* history: some thread has been through the making of a hash
    FuncTable,      \* NULL or the table in use, called by the thread that made it
    entries,        \* the names in the table that a thread has made
    filled,         \* how many rules it has gone through in its loop
    clash,          \* history: two threads have filled a table at once
    pc,             \* where each thread is
    op,             \* the call it is in
    table,          \* the table it looks into
    up              \* the process runs

hashVars == <<need_init_lock, lock, hashes, made>>
tableVars == <<FuncTable, entries, filled, clash>>
vars == <<hashVars, tableVars, pc, op, table, up>>

Places == {"idle", "test", "init", "clear", "lock", "inside", "find", "publish",
           "fill", "look"}
Ops == {"none", "new", "destroy", "get"}

Init ==
    /\ need_init_lock = TRUE /\ lock = NULL /\ made = FALSE
    /\ hashes = [t \in Threads |-> 0]
    /\ FuncTable = NULL /\ entries = [t \in Threads |-> {}]
    /\ filled = [t \in Threads |-> 0] /\ clash = FALSE
    /\ pc = [t \in Threads |-> "idle"] /\ op = [t \in Threads |-> "none"]
    /\ table = [t \in Threads |-> NULL] /\ up = TRUE

At(t, place) == up /\ pc[t] = place
Goto(t, place) == pc' = [pc EXCEPT ![t] = place] /\ UNCHANGED <<op, up>>
GoLook(t) == Goto(t, "look") /\ table' = [table EXCEPT ![t] = FuncTable]
Return(t) ==
    /\ pc' = [pc EXCEPT ![t] = "idle"] /\ op' = [op EXCEPT ![t] = "none"]
    /\ table' = [table EXCEPT ![t] = NULL] /\ UNCHANGED up

End == up' = FALSE /\ UNCHANGED <<pc, op, table>>

(* Calls: NewNameHash, NewNameiHash and NewIntHash are the same; a thread destroys   *)
(* what it holds, and DestroyHashTable of NULL returns.  GetConvFunc is called as    *)
(* such or by ConvSetLanguage, with a name that matters at the look-up only.         *)
Enter(t, o, place) ==
    /\ At(t, "idle")
    /\ pc' = [pc EXCEPT ![t] = place] /\ op' = [op EXCEPT ![t] = o]
    /\ UNCHANGED <<hashVars, tableVars, table, up>>

CallNewHash(t) == hashes[t] < MaxHashes /\ Enter(t, "new", "test")
NotNull(t) == hashes[t] > 0
CallDestroyHashTable(t) == NotNull(t) /\ Enter(t, "destroy", "lock")
CallGetConvFunc(t) == Enter(t, "get", "find")

(* NewNameHash: whoever still finds need_init_lock set initialises the mutex, and a  *)
(* mutex that is initialised while it is held is free.  (A thread that sleeps in it  *)
(* may then be forgotten: it is one that takes no further step.)                     *)
TestInit(t) ==
    /\ At(t, "test")
    /\ Goto(t, IF need_init_lock THEN "init" ELSE "lock")
    /\ UNCHANGED <<hashVars, tableVars, table>>

InitLock(t) ==
    /\ At(t, "init")
    /\ lock' = NULL /\ Goto(t, "clear")
    /\ UNCHANGED <<need_init_lock, hashes, made, tableVars, table>>

NotCleared(t) == need_init_lock' = need_init_lock
Cleared(t) == need_init_lock' = FALSE
ClearInit(t) ==
    /\ At(t, "clear")
    /\ Cleared(t) /\ Goto(t, "lock")
    /\ UNCHANGED <<lock, hashes, made, tableVars, table>>

Lock(t) ==
    /\ At(t, "lock")
    /\ lock = NULL /\ lock' = t /\ Goto(t, "inside")
    /\ UNCHANGED <<need_init_lock, hashes, made, tableVars, table>>

(* g_hash_table_new or g_hash_table_destroy, and the unlocking, which frees the      *)
(* mutex whoever holds it by now.                                                    *)
Unlock(t) ==
    /\ At(t, "inside")
    /\ lock' = NULL /\ made' = (made \/ op[t] # "destroy")
    /\ hashes' = [hashes EXCEPT ![t] = CASE op[t] = "new" -> @ + 1
                                         [] op[t] = "destroy" -> @ - 1
                                         [] OTHER -> @]
    /\ IF op[t] \in {"new", "destroy"}
       THEN Return(t)
       ELSE Goto(t, "publish") /\ UNCHANGED table
    /\ UNCHANGED <<need_init_lock, tableVars>>

(* GetConvFunc: the table is found or made; the new one is published before it has   *)
(* an entry, over another one if that was published meanwhile, and the loop fills    *)
(* whatever FuncTable then is.                                                       *)
FindTable(t) ==
    /\ At(t, "find")
    /\ IF FuncTable = NULL THEN Goto(t, "test") /\ UNCHANGED table ELSE GoLook(t)
    /\ UNCHANGED <<hashVars, tableVars>>

Racing(t) == \E u \in Threads \ {t} : pc[u] = "fill"

Publish(t) ==
    /\ At(t, "publish")
    /\ FuncTable' = t /\ entries' = [entries EXCEPT ![t] = {}]
    /\ clash' = (clash \/ Racing(t))
    /\ Goto(t, "fill") /\ UNCHANGED <<hashVars, filled, table>>

ButOne(n) == n + 1 < Len(Rules)
MoreRules(n) == n < Len(Rules)
InsertRule(t) ==
    /\ At(t, "fill")
    /\ MoreRules(filled[t])
    /\ \/ entries' = [entries EXCEPT ![FuncTable] = @ \union {Rules[filled[t] + 1]}]
       \/ Racing(t) /\ UNCHANGED entries
    /\ filled' = [filled EXCEPT ![t] = @ + 1]
    /\ UNCHANGED <<hashVars, FuncTable, clash, pc, op, table, up>>

FilledTable(t) ==
    /\ At(t, "fill")
    /\ ~MoreRules(filled[t])
    /\ filled' = [filled EXCEPT ![t] = 0]
    /\ GoLook(t) /\ UNCHANGED <<hashVars, FuncTable, entries, clash>>

(* GetConvFunc returns what it finds or NULL; ConvSetLanguage ends the process when  *)
(* it finds nothing, and else sets three globals that are left out here.             *)
Answer(t, there) == Return(t) \/ (~there /\ End)
LookUp(t) ==
    /\ At(t, "look")
    /\ \/ \E n \in Names : Answer(t, n \in entries[table[t]])
       \/ Racing(t) /\ Answer(t, FALSE)
    /\ UNCHANGED <<hashVars, tableVars>>

(* Two threads in the functions of one GHashTable at once.                           *)
Crash(t) ==
    /\ At(t, "fill") \/ At(t, "look")
    /\ Racing(t) /\ End
    /\ UNCHANGED <<hashVars, tableVars>>

Ended == ~up /\ UNCHANGED vars

Step(t) ==
    \/ CallNewHash(t) \/ CallDestroyHashTable(t) \/ CallGetConvFunc(t)
    \/ TestInit(t) \/ InitLock(t) \/ ClearInit(t) \/ Lock(t) \/ Unlock(t)
    \/ FindTable(t) \/ Publish(t) \/ InsertRule(t) \/ FilledTable(t) \/ LookUp(t) \/ Crash(t)

Next == Ended \/ \E t \in Threads : Step(t)

Spec == Init /\ [][Next]_vars

-----------------------------------------------------------------------------
(* Every variable in its type: a thread's hashes are counted exactly, so that none   *)
(* is destroyed that is not there, and no table has a codec that funcs[] has not.    *)
TypeOK ==
    /\ need_init_lock \in BOOLEAN /\ lock \in Threads \union {NULL}
    /\ hashes \in [Threads -> 0..MaxHashes] /\ made \in BOOLEAN
    /\ FuncTable \in Threads \union {NULL}
    /\ entries \in [Threads -> SUBSET Known]
    /\ filled \in [Threads -> 0..Len(Rules)] /\ clash \in BOOLEAN
    /\ pc \in [Threads -> Places] /\ op \in [Threads -> Ops]
    /\ table \in [Threads -> Threads \union {NULL}]
    /\ up \in BOOLEAN

(* Whoever is in hash.c's critical section holds its mutex; so nobody else is there. *)
Exclusion == \A t \in Threads : pc[t] = "inside" => lock = t

(* A hash has been made and nobody is about to initialise the mutex.                 *)
FirstCallsOver == made /\ \A t \in Threads : pc[t] # "init"

(* First callers may initialise the mutex twice, the second time while it is held    *)
(* (hash.c:74-81), but no harm comes of it later: once a hash has been made and      *)
(* nobody is about to initialise the mutex, nobody ever does so again, whatever a    *)
(* late first caller has read of need_init_lock, and exclusion is not lost any more  *)
(* once it holds (hash.c:150-158).                                                   *)
InitialisedForGood ==
    [][FirstCallsOver => FirstCallsOver' /\ (Exclusion => Exclusion')]_vars

(* Several first callers each publish a table before it has an entry, the late ones  *)
(* over one that is complete and in use (valueconv.c:98-106).  Unless two of them    *)
(* have filled at once, a thread misses a codec that funcs[] has only while the      *)
(* maker of the table it looks into is still filling it; a table that was replaced   *)
(* meanwhile is complete.                                                            *)
KnownFound ==
    \A t \in Threads :
        /\ ~clash /\ pc[t] = "look"
        /\ pc[table[t]] # "fill"
        => Known \subseteq entries[table[t]]
=============================================================================
