------------------------------- MODULE RWLock -------------------------------
(***************************************************************************)
(* The reader/writer lock of src/src/lock.c and lock.h: a counter rwlock   *)
(* (-1 for a writer, n for n readers), a counter wwrite of queued writers, *)
(* and two condition variables, all under one mutex.                       *)
(*                                                                         *)
(* Every access to rwlock and wwrite is inside the mutex, and              *)
(* pthread_cond_wait releases it atomically, so each stretch of code       *)
(* between taking the mutex and giving it up is one step.  The signals of  *)
(* _UnLock are sent after the mutex is released: they are a step of their  *)
(* own, and the flags they depend on may be stale by then.                 *)
(*                                                                         *)
(* Definitions marked "Fault" are not part of the lock: each is a mistake  *)
(* that one property below catches.                                        *)
(***************************************************************************)
EXTENDS Integers, FiniteSets

CONSTANT Threads    \* the threads sharing the lock

ASSUME ThreadsFinite == IsFiniteSet(Threads)

VARIABLES rwlock,   \* lock->rwlock
          wwrite,   \* lock->wwrite
          pc,       \* pc[t]: where thread t is, see Places
          mode,     \* mode[t]: the access t asked for, or holds
          pending   \* pending[t]: the signal _UnLock decided on, not yet sent

vars == <<rwlock, wwrite, pc, mode, pending>>

Modes == {"read", "write"}

(***************************************************************************)
(* "out"       holds nothing, is in no call                                *)
(* "lock"      entered _Lock, has not got the mutex yet                    *)
(* "asleep"    in pthread_cond_wait on reader_ok or writer_ok              *)
(* "woken"     signalled, has not got the mutex back yet                   *)
(* "in"        returned from _Lock or _WaitLock, holds the lock            *)
(* "signal"    in _UnLock, after pthread_mutex_unlock                      *)
(* "condwait"  in _WaitLock, in pthread_cond_wait on the caller's cond     *)
(***************************************************************************)
Places == {"out", "lock", "asleep", "woken", "in", "signal", "condwait"}

\* The threads asleep on reader_ok (m = "read") or on writer_ok.
Sleepers(m) == {t \in Threads : pc[t] = "asleep" /\ mode[t] = m}

Go(t, place) == pc' = [pc EXCEPT ![t] = place]

Init ==  \* InitLock
  /\ rwlock = 0
  /\ wwrite = 0
  /\ pc = [t \in Threads |-> "out"]
  /\ mode = [t \in Threads |-> "read"]
  /\ pending = [t \in Threads |-> "none"]

-----------------------------------------------------------------------------
(* _Lock *)

\* LockRead or LockWrite is called.
Call(t, m) ==
  /\ pc[t] = "out"
  /\ mode' = [mode EXCEPT ![t] = m]
  /\ Go(t, "lock")
  /\ UNCHANGED <<rwlock, wwrite, pending>>

\* Fault: readers pass queued writers.
ReadBlockedByHolderOnly == rwlock < 0

ReadBlocked == rwlock < 0 \/ wwrite > 0

LockRead(t) ==
  /\ pc[t] \in {"lock", "woken"}
  /\ mode[t] = "read"
  /\ \/ /\ ReadBlocked
        /\ Go(t, "asleep")
        /\ UNCHANGED rwlock
     \/ /\ ~ReadBlocked
        /\ Go(t, "in")
        /\ rwlock' = rwlock + 1
  /\ UNCHANGED <<wwrite, mode, pending>>

\* Fault: a writer joins readers.
WriteBlockedByWriterOnly == rwlock < 0

WriteBlocked == rwlock # 0

\* Fault: a woken writer stays counted in wwrite.
StillQueuedAfterWake(t) == wwrite

\* A woken writer leaves the count of queued writers before it looks again.
StillQueued(t) == IF pc[t] = "woken" THEN wwrite - 1 ELSE wwrite

LockWrite(t) ==
  /\ pc[t] \in {"lock", "woken"}
  /\ mode[t] = "write"
  /\ \/ /\ WriteBlocked
        /\ wwrite' = StillQueued(t) + 1
        /\ Go(t, "asleep")
        /\ UNCHANGED rwlock
     \/ /\ ~WriteBlocked
        /\ wwrite' = StillQueued(t)
        /\ rwlock' = -1
        /\ Go(t, "in")
  /\ UNCHANGED <<mode, pending>>

-----------------------------------------------------------------------------
(* _UnLock and _WaitLock *)

\* rwlock once the caller has given up its hold.
Released == IF rwlock < 0 THEN 0 ELSE rwlock - 1

\* Fault: the flags are computed before the counter is updated.
OwedSignalTooEarly(r) ==
  IF wwrite # 0 /\ rwlock = 0 THEN "write"
  ELSE IF wwrite = 0 THEN "read" ELSE "none"

\* Fault: sleeping readers are left to a writer that may never come.
OwedSignalToWriters(r) == IF wwrite # 0 /\ r = 0 THEN "write" ELSE "none"

\* The signal both functions owe after setting rwlock to r.
OwedSignal(r) ==
  IF wwrite # 0 /\ r = 0 THEN "write"
  ELSE IF wwrite = 0 THEN "read" ELSE "none"

UnLock(t) ==
  /\ pc[t] = "in"
  /\ rwlock' = Released
  /\ pending' = [pending EXCEPT ![t] = OwedSignal(Released)]
  /\ Go(t, "signal")
  /\ UNCHANGED <<wwrite, mode>>

\* pthread_cond_signal wakes one sleeper if there is one.
SendSignal(t) ==
  /\ pc[t] = "signal"
  /\ \/ \E u \in Sleepers(pending[t]) :
          pc' = [pc EXCEPT ![t] = "out", ![u] = "woken"]
     \/ /\ Sleepers(pending[t]) = {}
        /\ Go(t, "out")
  /\ pending' = [pending EXCEPT ![t] = "none"]
  /\ UNCHANGED <<rwlock, wwrite, mode>>

\* Fault: fWriter is read off rwlock after rwlock is released.
HeldModeLate == IF Released < 0 THEN "write" ELSE "read"

\* fWriter
HeldMode == IF rwlock < 0 THEN "write" ELSE "read"

\* One writer is signalled, but every reader is (pthread_cond_broadcast); the
\* mode to come back in is read off rwlock.  The caller sleeps on its own cond
\* before the mutex is released.
WaitLock(t) ==
  LET owed == OwedSignal(Released)
  IN /\ pc[t] = "in"
     /\ mode' = [mode EXCEPT ![t] = HeldMode]
     /\ rwlock' = Released
     /\ \/ /\ owed = "write"
           /\ \E u \in Sleepers("write") :
                pc' = [pc EXCEPT ![t] = "condwait", ![u] = "woken"]
        \/ /\ owed = "write" /\ Sleepers("write") = {}
           /\ Go(t, "condwait")
        \/ /\ owed = "read"
           /\ pc' = [u \in Threads |->
                       IF u = t THEN "condwait"
                       ELSE IF u \in Sleepers("read") THEN "woken" ELSE pc[u]]
        \/ /\ owed = "none"
           /\ Go(t, "condwait")
     /\ UNCHANGED <<wwrite, pending>>

\* The caller's cond is signalled: _WaitLock goes on to _Lock(lock, !fWriter).
CondWake(t) ==
  /\ pc[t] = "condwait"
  /\ Go(t, "lock")
  /\ UNCHANGED <<rwlock, wwrite, mode, pending>>

\* POSIX lets pthread_cond_wait return without a signal.
SpuriousWake(t) ==
  /\ pc[t] = "asleep"
  /\ Go(t, "woken")
  /\ UNCHANGED <<rwlock, wwrite, mode, pending>>

-----------------------------------------------------------------------------
Lock(t) == LockRead(t) \/ LockWrite(t)

Step(t) == \/ \E m \in Modes : Call(t, m)
           \/ Lock(t)
           \/ UnLock(t)
           \/ SendSignal(t)
           \/ WaitLock(t)
           \/ CondWake(t)
           \/ SpuriousWake(t)

Next == \E t \in Threads : Step(t)

Spec == Init /\ [][Next]_vars

\* A runnable thread runs, and a holder sooner or later gives the lock up
\* (every LockWrite in memory.c is followed by UnLock on every path).  Nothing
\* obliges anyone to ask for the lock, to signal the caller's cond or to wake
\* spuriously.
Fairness == \A t \in Threads : /\ WF_vars(Lock(t))
                               /\ WF_vars(SendSignal(t))
                               /\ WF_vars(UnLock(t) \/ WaitLock(t))

FairSpec == Spec /\ Fairness

-----------------------------------------------------------------------------
(* Properties *)

Readers == {t \in Threads : pc[t] = "in" /\ mode[t] = "read"}
Writers == {t \in Threads : pc[t] = "in" /\ mode[t] = "write"}
Queued  == {t \in Threads : pc[t] \in {"asleep", "woken"} /\ mode[t] = "write"}

\* The counters stay within the number of threads.
TypeOK ==
  /\ rwlock \in -1..Cardinality(Threads)
  /\ wwrite \in 0..Cardinality(Threads)
  /\ pc \in [Threads -> Places]
  /\ mode \in [Threads -> Modes]
  /\ pending \in [Threads -> Modes \cup {"none"}]

\* The two counters never drift from the threads they count, through every
\* wake-up, re-check and signal: rwlock is -1 exactly while one thread holds
\* the lock for writing, the number of readers otherwise, and wwrite is the
\* number of writers between their first wait and their admission.
CountersExact ==
  /\ Writers # {} => rwlock = -1
  /\ Writers = {} => rwlock = Cardinality(Readers)
  /\ wwrite = Cardinality(Queued)

\* A writer holds the lock alone.
Exclusion == \A w \in Writers : \A t \in Readers \cup Writers : t = w

\* Somebody in mode m is on the way to look at the lock: woken, or about to be
\* signalled by an unlocker.
Coming(m) == \E t \in Threads : \/ pc[t] = "woken" /\ mode[t] = m
                                \/ pc[t] = "signal" /\ pending[t] = m

\* No wake-up is lost.  When the lock is free and a writer sleeps on writer_ok,
\* a writer is coming; when it is free, no writer is queued and a reader sleeps
\* on reader_ok, a reader is coming.  The flags of _UnLock are computed before
\* the mutex is released and used after it, so this holds only if every signal
\* that is missed because of that is made good by a later unlock.
NoLostWakeup ==
  rwlock = 0 =>
    /\ Sleepers("write") # {} => Coming("write")
    /\ Sleepers("read") # {} /\ wwrite = 0 => Coming("read")

\* A thread that gives the lock up in _WaitLock asks for it again in the mode
\* it held it in.
WaitKeepsMode ==
  [][\A t \in Threads : pc[t] = "in" /\ pc'[t] = "condwait" => mode'[t] = mode[t]]_vars

\* Whenever a thread wants the lock, some thread gets it: no set of callers
\* ends up asleep on a free lock.
SomeoneEnters ==
  (\E t \in Threads : pc[t] \in {"lock", "asleep", "woken"})
    ~> (\E t \in Threads : pc[t] = "in")

\* The lock implements the abstract one.
Abs == INSTANCE AbstractRWLock
         WITH holds  <- [t \in Threads |-> IF pc[t] = "in" THEN mode[t] ELSE "none"],
              queued <- Queued

ImplementsAbstractLock == Abs!Spec

=============================================================================
