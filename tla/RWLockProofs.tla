---------------------------- MODULE RWLockProofs ----------------------------
(***************************************************************************)
(* Proofs about the lock of src/src/lock.c, for any finite set of threads: *)
(* its two counters count what they should, a writer is alone, no wake-up  *)
(* is lost, and it implements the abstract lock.                           *)
(***************************************************************************)
EXTENDS RWLock, FiniteSetTheorems, TLAPS

\* The types by themselves, without the bounds on the counters that TypeOK has.
Typed ==
  /\ rwlock \in Int
  /\ wwrite \in Int
  /\ pc \in [Threads -> Places]
  /\ mode \in [Threads -> Modes]
  /\ pending \in [Threads -> Modes \cup {"none"}]

\* What every step preserves.  CountersExact needs Exclusion (a departing
\* writer leaves no reader behind) and Exclusion needs CountersExact (nobody
\* enters on a non-zero rwlock); NoLostWakeup needs both.
IInv == Typed /\ CountersExact /\ Exclusion /\ NoLostWakeup

-----------------------------------------------------------------------------
(* Type correctness *)

LEMMA TypedAlways == Spec => []Typed
<1>1. Init => Typed
  BY DEF Init, Typed, Places, Modes
<1>2. Typed /\ [Next]_vars => Typed'
  <2> SUFFICES ASSUME Typed, [Next]_vars PROVE Typed'
    OBVIOUS
  <2> USE DEF Typed, Places, Modes, Go
  <2>1. ASSUME NEW t \in Threads, NEW m \in Modes, Call(t, m) PROVE Typed'
    BY <2>1 DEF Call
  <2>2. ASSUME NEW t \in Threads, LockRead(t) PROVE Typed'
    BY <2>2 DEF LockRead
  <2>3. ASSUME NEW t \in Threads, LockWrite(t) PROVE Typed'
    BY <2>3 DEF LockWrite, WriteBlocked, StillQueued
  <2>4. ASSUME NEW t \in Threads, UnLock(t) PROVE Typed'
    <3>1. Released \in Int
      BY DEF Released
    <3>2. OwedSignal(Released) \in Modes \cup {"none"}
      BY DEF OwedSignal
    <3> QED BY <2>4, <3>1, <3>2 DEF UnLock
  <2>5. ASSUME NEW t \in Threads, SendSignal(t) PROVE Typed'
    BY <2>5 DEF SendSignal, Sleepers
  <2>6. ASSUME NEW t \in Threads, WaitLock(t) PROVE Typed'
    <3>1. Released \in Int
      BY DEF Released
    <3>2. pc' \in [Threads -> Places]
      BY <2>6 DEF WaitLock, Sleepers
    <3> QED BY <2>6, <3>1, <3>2 DEF WaitLock, HeldMode
  <2>7. ASSUME NEW t \in Threads, CondWake(t) PROVE Typed'
    BY <2>7 DEF CondWake
  <2>8. ASSUME NEW t \in Threads, SpuriousWake(t) PROVE Typed'
    BY <2>8 DEF SpuriousWake
  <2>9. CASE UNCHANGED vars
    BY <2>9 DEF vars
  <2> QED BY <2>1, <2>2, <2>3, <2>4, <2>5, <2>6, <2>7, <2>8, <2>9
          DEF Next, Step, Lock
<1> QED BY <1>1, <1>2, PTL DEF Spec

-----------------------------------------------------------------------------
(* Counters and exclusion *)

\* The sets the counters count are finite.
LEMMA FiniteCrowds ==
  ASSUME Typed
  PROVE  /\ IsFiniteSet(Readers) /\ IsFiniteSet(Queued)
         /\ Cardinality(Readers) \in Nat /\ Cardinality(Queued) \in Nat
<1>1. Readers \subseteq Threads /\ Queued \subseteq Threads
  BY DEF Readers, Queued
<1> QED BY <1>1, ThreadsFinite, FS_Subset, FS_CardinalityType

\* With both counters exact and a writer alone, rwlock tells who is inside.
LEMMA CrowdInside ==
  ASSUME Typed, CountersExact, Exclusion
  PROVE  /\ rwlock = 0 => Readers = {} /\ Writers = {}
         /\ rwlock < 0 <=> Writers # {}
         /\ rwlock >= -1
         /\ wwrite = 0 <=> Queued = {}
         /\ wwrite >= 0
         /\ \A w \in Writers : Writers = {w} /\ Readers = {}
<1>1. /\ Cardinality(Readers) \in Nat /\ Cardinality(Queued) \in Nat
      /\ Cardinality(Readers) = 0 <=> Readers = {}
      /\ Cardinality(Queued) = 0 <=> Queued = {}
  BY FiniteCrowds, FS_EmptySet
<1>2. Readers \cap Writers = {}
  BY DEF Readers, Writers
<1>3. \A w \in Writers : Writers = {w} /\ Readers = {}
  BY <1>2 DEF Exclusion
<1> QED BY <1>1, <1>3 DEF CountersExact, Typed

\* Inside the lock, the sign of rwlock is the mode the caller holds it in: the
\* mode _WaitLock comes back in.
LEMMA ModeReadOff ==
  ASSUME Typed, CountersExact, Exclusion, NEW t \in Threads, WaitLock(t)
  PROVE  mode' = mode
<1>1. pc[t] = "in" BY DEF WaitLock
<1>2. CASE mode[t] = "write"
  <2>1. rwlock < 0 BY <1>1, <1>2, CrowdInside DEF Writers
  <2> QED BY <1>2, <2>1 DEF WaitLock, HeldMode, Typed
<1>3. CASE mode[t] = "read"
  <2>1. ~(rwlock < 0) BY <1>1, <1>3, CrowdInside DEF Readers
  <2> QED BY <1>3, <2>1 DEF WaitLock, HeldMode, Typed
<1> QED BY <1>2, <1>3 DEF Typed, Modes

\* A step that leaves who is inside, who is queued and the counters alone
\* preserves both.
LEMMA SameCrowds ==
  ASSUME CountersExact, Exclusion, UNCHANGED <<rwlock, wwrite>>,
         Readers' = Readers, Writers' = Writers, Queued' = Queued
  PROVE  CountersExact' /\ Exclusion'
BY DEF CountersExact, Exclusion

\* Every step keeps the counters exact and the writer alone.
LEMMA CrowdStep ==
  ASSUME Typed, Typed', CountersExact, Exclusion, [Next]_vars
  PROVE  CountersExact' /\ Exclusion'
<1> USE DEF Go
<1>0. /\ IsFiniteSet(Readers) /\ IsFiniteSet(Queued)
      /\ Cardinality(Readers) \in Nat /\ Cardinality(Queued) \in Nat
  BY FiniteCrowds
<1>1. ASSUME NEW t \in Threads, NEW m \in Modes, Call(t, m)
      PROVE  CountersExact' /\ Exclusion'
  <2>1. Readers' = Readers /\ Writers' = Writers /\ Queued' = Queued
    BY <1>1 DEF Call, Typed, Readers, Writers, Queued
  <2> QED BY <2>1, <1>1, SameCrowds DEF Call
<1>2. ASSUME NEW t \in Threads, LockRead(t) PROVE CountersExact' /\ Exclusion'
  <2>1. CASE ReadBlocked
    <3>1. Readers' = Readers /\ Writers' = Writers /\ Queued' = Queued
      BY <1>2, <2>1 DEF LockRead, Typed, Readers, Writers, Queued
    <3> QED BY <3>1, <2>1, <1>2, SameCrowds DEF LockRead
  <2>2. CASE ~ReadBlocked
    <3>1. /\ Readers' = Readers \cup {t} /\ t \notin Readers
          /\ Writers' = Writers /\ Queued' = Queued
          /\ rwlock' = rwlock + 1 /\ wwrite' = wwrite
      BY <1>2, <2>2 DEF LockRead, Typed, Readers, Writers, Queued
    <3>2. Writers = {} /\ rwlock = Cardinality(Readers)
      BY <2>2, CrowdInside DEF ReadBlocked, CountersExact
    <3>3. Cardinality(Readers') = Cardinality(Readers) + 1
      BY <3>1, <1>0, FS_AddElement
    <3> QED BY <3>1, <3>2, <3>3 DEF CountersExact, Exclusion
  <2> QED BY <2>1, <2>2
<1>3. ASSUME NEW t \in Threads, LockWrite(t) PROVE CountersExact' /\ Exclusion'
  <2>1. CASE rwlock # 0
    <3>1. /\ Readers' = Readers /\ Writers' = Writers
          /\ Queued' = Queued \cup {t} /\ rwlock' = rwlock
      BY <1>3, <2>1 DEF LockWrite, WriteBlocked, StillQueued, Typed, Readers, Writers, Queued
    <3>2. wwrite' = Cardinality(Queued')
      <4>1. CASE pc[t] = "woken"
        <5>1. t \in Queued /\ wwrite' = wwrite
          BY <1>3, <2>1, <4>1 DEF LockWrite, WriteBlocked, StillQueued, Queued, Typed
        <5> QED BY <5>1, <3>1 DEF CountersExact
      <4>2. CASE pc[t] # "woken"
        <5>1. t \notin Queued /\ wwrite' = wwrite + 1
          BY <1>3, <2>1, <4>2 DEF LockWrite, WriteBlocked, StillQueued, Queued, Typed
        <5> QED BY <5>1, <3>1, <1>0, FS_AddElement DEF CountersExact
      <4> QED BY <4>1, <4>2
    <3> QED BY <3>1, <3>2 DEF CountersExact, Exclusion
  <2>2. CASE rwlock = 0
    <3>1. /\ Readers = {} /\ Writers = {}
      BY <2>2, CrowdInside
    <3>2. /\ Readers' = Readers /\ Writers' = {t}
          /\ Queued' = Queued \ {t} /\ rwlock' = -1
      BY <1>3, <2>2, <3>1 DEF LockWrite, WriteBlocked, StillQueued, Typed, Readers, Writers, Queued
    <3>3. wwrite' = Cardinality(Queued')
      <4>1. CASE pc[t] = "woken"
        <5>1. t \in Queued /\ wwrite' = wwrite - 1
          BY <1>3, <2>2, <4>1 DEF LockWrite, WriteBlocked, StillQueued, Queued, Typed
        <5> QED BY <5>1, <3>2, <1>0, FS_RemoveElement DEF CountersExact
      <4>2. CASE pc[t] # "woken"
        <5>1. Queued \ {t} = Queued /\ wwrite' = wwrite
          BY <1>3, <2>2, <4>2 DEF LockWrite, WriteBlocked, StillQueued, Queued, Typed
        <5> QED BY <5>1, <3>2 DEF CountersExact
      <4> QED BY <4>1, <4>2
    <3> QED BY <3>1, <3>2, <3>3 DEF CountersExact, Exclusion
  <2> QED BY <2>1, <2>2
\* UnLock and WaitLock take the caller out of the lock in the same way.
<1>4. ASSUME NEW t \in Threads, pc[t] = "in", rwlock' = Released, wwrite' = wwrite,
             Readers' = Readers \ {t}, Writers' = Writers \ {t}, Queued' = Queued
      PROVE  CountersExact' /\ Exclusion'
  <2>1. CASE mode[t] = "write"
    <3>1. t \in Writers
      BY <1>4, <2>1 DEF Writers
    <3>2. Writers = {t} /\ Readers = {} /\ rwlock < 0
      BY <3>1, CrowdInside
    <3>3. /\ Readers' = {} /\ Writers' = {} /\ rwlock' = 0
      BY <3>2, <1>4 DEF Released
    <3> QED BY <3>3, <1>4, FS_EmptySet DEF CountersExact, Exclusion
  <2>2. CASE mode[t] = "read"
    <3>1. t \in Readers
      BY <1>4, <2>2 DEF Readers
    <3>2. Writers = {} /\ rwlock >= 0 /\ rwlock = Cardinality(Readers)
      BY <3>1, CrowdInside DEF CountersExact, Typed
    <3>3. /\ Writers' = {} /\ rwlock' = rwlock - 1
      BY <3>2, <1>4 DEF Released, Typed
    <3>4. Cardinality(Readers') = Cardinality(Readers) - 1
      BY <3>1, <1>4, <1>0, FS_RemoveElement
    <3> QED BY <3>2, <3>3, <3>4, <1>4 DEF CountersExact, Exclusion
  <2> QED BY <2>1, <2>2 DEF Typed, Modes
<1>5. ASSUME NEW t \in Threads, UnLock(t) PROVE CountersExact' /\ Exclusion'
  <2>1. Readers' = Readers \ {t} /\ Writers' = Writers \ {t} /\ Queued' = Queued
    BY <1>5 DEF UnLock, Typed, Readers, Writers, Queued
  <2> QED BY <2>1, <1>4, <1>5 DEF UnLock
<1>6. ASSUME NEW t \in Threads, SendSignal(t) PROVE CountersExact' /\ Exclusion'
  <2>1. Readers' = Readers /\ Writers' = Writers /\ Queued' = Queued
    BY <1>6 DEF SendSignal, Sleepers, Typed, Readers, Writers, Queued
  <2> QED BY <2>1, <1>6, SameCrowds DEF SendSignal
<1>7. ASSUME NEW t \in Threads, WaitLock(t) PROVE CountersExact' /\ Exclusion'
  <2>1. mode' = mode
    BY <1>7, ModeReadOff
  <2>2. \A u \in Threads : /\ pc[u] = "in" /\ u # t => pc'[u] = "in"
                           /\ pc'[u] = "in" => pc[u] = "in" /\ u # t
                           /\ pc'[u] \in {"asleep", "woken"}
                                <=> pc[u] \in {"asleep", "woken"}
    BY <1>7 DEF WaitLock, Sleepers, Typed
  <2>3. Readers' = Readers \ {t} /\ Writers' = Writers \ {t} /\ Queued' = Queued
    BY <2>1, <2>2 DEF Readers, Writers, Queued
  <2> QED BY <2>3, <1>4, <1>7 DEF WaitLock
<1>8. ASSUME NEW t \in Threads, CondWake(t) PROVE CountersExact' /\ Exclusion'
  <2>1. Readers' = Readers /\ Writers' = Writers /\ Queued' = Queued
    BY <1>8 DEF CondWake, Typed, Readers, Writers, Queued
  <2> QED BY <2>1, <1>8, SameCrowds DEF CondWake
<1>9. ASSUME NEW t \in Threads, SpuriousWake(t) PROVE CountersExact' /\ Exclusion'
  <2>1. Readers' = Readers /\ Writers' = Writers /\ Queued' = Queued
    BY <1>9 DEF SpuriousWake, Typed, Readers, Writers, Queued
  <2> QED BY <2>1, <1>9, SameCrowds DEF SpuriousWake
<1>10. CASE UNCHANGED vars
  <2>1. Readers' = Readers /\ Writers' = Writers /\ Queued' = Queued
    BY <1>10 DEF vars, Readers, Writers, Queued
  <2> QED BY <2>1, <1>10, SameCrowds DEF vars
<1> QED BY <1>1, <1>2, <1>3, <1>5, <1>6, <1>7, <1>8, <1>9, <1>10
        DEF Next, Step, Lock

-----------------------------------------------------------------------------
(* Wake-ups *)

\* A step that adds no sleeper, wakes nobody away and keeps rwlock and wwrite
\* preserves NoLostWakeup.
LEMMA SameSleepers ==
  ASSUME NoLostWakeup, UNCHANGED <<rwlock, wwrite>>,
         \A m \in Modes : /\ Sleepers(m)' \subseteq Sleepers(m)
                          /\ Coming(m) => Coming(m)'
  PROVE  NoLostWakeup'
BY DEF NoLostWakeup, Modes

\* Every step keeps NoLostWakeup.
LEMMA WakeupStep ==
  ASSUME IInv, Typed', [Next]_vars
  PROVE  NoLostWakeup'
<1> USE DEF Go, IInv
<1>0. SUFFICES ASSUME rwlock' = 0 PROVE NoLostWakeup'
  BY DEF NoLostWakeup
<1>1. ASSUME NEW t \in Threads, NEW m \in Modes, Call(t, m) PROVE NoLostWakeup'
  <2>1. \A n \in Modes : Sleepers(n)' \subseteq Sleepers(n)
    BY <1>1 DEF Call, Typed, Sleepers
  <2>2. \A n \in Modes : Coming(n) => Coming(n)'
    BY <1>1 DEF Call, Typed, Coming
  <2> QED BY <2>1, <2>2, <1>1, SameSleepers DEF Call
\* A reader that goes to sleep on a free lock leaves it to a queued writer.
<1>2. ASSUME NEW t \in Threads, LockRead(t) PROVE NoLostWakeup'
  <2>1. CASE ReadBlocked
    <3>1. rwlock = 0 /\ wwrite > 0 /\ wwrite' = wwrite
      BY <1>0, <1>2, <2>1, CrowdInside DEF LockRead, ReadBlocked, Typed
    <3>2. Sleepers("write")' \subseteq Sleepers("write")
      BY <1>2, <2>1 DEF LockRead, Typed, Sleepers
    <3>3. Coming("write") => Coming("write")'
      BY <1>2, <2>1 DEF LockRead, Typed, Coming, Modes
    <3> QED BY <3>1, <3>2, <3>3 DEF NoLostWakeup
  <2>2. CASE ~ReadBlocked
    BY <1>0, <1>2, <2>2 DEF LockRead, ReadBlocked, Typed
  <2> QED BY <2>1, <2>2
\* A writer goes to sleep only while the lock is held.
<1>3. ASSUME NEW t \in Threads, LockWrite(t) PROVE NoLostWakeup'
  BY <1>0, <1>3 DEF LockWrite, WriteBlocked, StillQueued
<1>4. Sleepers("write")' # {} /\ UNCHANGED <<wwrite, Queued>> => wwrite # 0
  <2>1. Sleepers("write")' \subseteq Queued'
    BY DEF Sleepers, Queued
  <2> QED BY <2>1, CrowdInside
<1>5. ASSUME NEW t \in Threads, UnLock(t) PROVE NoLostWakeup'
  <2>1. Queued' = Queued /\ wwrite' = wwrite
    BY <1>5 DEF UnLock, Typed, Queued
  <2>2. wwrite # 0 => Coming("write")'
    BY <1>0, <1>5 DEF UnLock, OwedSignal, Typed, Coming
  <2>3. wwrite = 0 => Coming("read")'
    BY <1>0, <1>5 DEF UnLock, OwedSignal, Typed, Coming
  <2> QED BY <2>1, <2>2, <2>3, <1>4 DEF NoLostWakeup
\* The signal may be stale; if nobody sleeps on that cond it is not missed.
<1>6. ASSUME NEW t \in Threads, SendSignal(t) PROVE NoLostWakeup'
  <2>1. ASSUME NEW m \in Modes
        PROVE  /\ Sleepers(m)' \subseteq Sleepers(m)
               /\ Coming(m) /\ Sleepers(m)' # {} => Coming(m)'
    <3>1. Sleepers(m)' \subseteq Sleepers(m)
      BY <1>6 DEF SendSignal, Typed, Sleepers
    <3>2. CASE pending[t] = m
      <4>1. CASE Sleepers(m) = {}
        BY <3>1, <4>1
      <4>2. CASE Sleepers(m) # {}
        <5>1. PICK u \in Sleepers(m) : pc' = [pc EXCEPT ![t] = "out", ![u] = "woken"]
          BY <1>6, <3>2, <4>2 DEF SendSignal
        <5>2. Coming(m)'
          BY <5>1, <1>6 DEF SendSignal, Typed, Sleepers, Coming
        <5> QED BY <3>1, <5>2
      <4> QED BY <4>1, <4>2
    <3>3. CASE pending[t] # m
      <4>1. ASSUME NEW w \in Threads, w # t, pc[w] \in {"woken", "signal"}
            PROVE  pc'[w] = pc[w] /\ mode'[w] = mode[w] /\ pending'[w] = pending[w]
        BY <1>6, <4>1 DEF SendSignal, Typed, Sleepers
      <4>2. pc[t] = "signal"
        BY <1>6 DEF SendSignal
      <4> QED BY <3>1, <3>3, <4>1, <4>2 DEF Coming
    <3> QED BY <3>2, <3>3
  <2> QED BY <2>1, <1>6 DEF SendSignal, NoLostWakeup, Modes
<1>7. ASSUME NEW t \in Threads, WaitLock(t) PROVE NoLostWakeup'
  <2>0. mode' = mode /\ wwrite' = wwrite /\ Released = 0
    BY <1>0, <1>7, ModeReadOff DEF WaitLock
  <2>1. CASE wwrite # 0
    <3>1. CASE Sleepers("write") = {}
      BY <2>0, <2>1, <3>1, <1>7
         DEF WaitLock, OwedSignal, Typed, Sleepers, NoLostWakeup
    <3>2. CASE Sleepers("write") # {}
      <4>1. PICK u \in Sleepers("write") :
              pc' = [pc EXCEPT ![t] = "condwait", ![u] = "woken"]
        BY <2>0, <2>1, <3>2, <1>7 DEF WaitLock, OwedSignal
      <4>2. u # t
        BY <1>7 DEF WaitLock, Sleepers
      <4>3. Coming("write")'
        BY <2>0, <4>1, <4>2 DEF Typed, Sleepers, Coming
      <4> QED BY <2>0, <2>1, <4>3 DEF NoLostWakeup
    <3> QED BY <3>1, <3>2
  <2>2. CASE wwrite = 0
    <3>1. pc' = [u \in Threads |->
                   IF u = t THEN "condwait"
                   ELSE IF u \in Sleepers("read") THEN "woken" ELSE pc[u]]
      BY <2>0, <2>2, <1>7 DEF WaitLock, OwedSignal
    <3>2. Sleepers("read")' = {}
      BY <2>0, <3>1 DEF Sleepers
    <3>3. Sleepers("write")' = {}
      <4>1. Queued = {} BY <2>2, CrowdInside
      <4> QED BY <2>0, <3>1, <4>1 DEF Sleepers, Queued
    <3> QED BY <3>2, <3>3 DEF NoLostWakeup
  <2> QED BY <2>1, <2>2
<1>8. ASSUME NEW t \in Threads, CondWake(t) PROVE NoLostWakeup'
  <2>1. \A n \in Modes : Sleepers(n)' \subseteq Sleepers(n)
    BY <1>8 DEF CondWake, Typed, Sleepers
  <2>2. \A n \in Modes : Coming(n) => Coming(n)'
    BY <1>8 DEF CondWake, Typed, Coming
  <2> QED BY <2>1, <2>2, <1>8, SameSleepers DEF CondWake
<1>9. ASSUME NEW t \in Threads, SpuriousWake(t) PROVE NoLostWakeup'
  <2>1. \A n \in Modes : Sleepers(n)' \subseteq Sleepers(n)
    BY <1>9 DEF SpuriousWake, Typed, Sleepers
  <2>2. \A n \in Modes : Coming(n) => Coming(n)'
    BY <1>9 DEF SpuriousWake, Typed, Coming
  <2> QED BY <2>1, <2>2, <1>9, SameSleepers DEF SpuriousWake
<1>10. CASE UNCHANGED vars
  BY <1>10 DEF vars, NoLostWakeup, Sleepers, Coming
<1> QED BY <1>1, <1>2, <1>3, <1>5, <1>6, <1>7, <1>8, <1>9, <1>10
        DEF Next, Step, Lock

-----------------------------------------------------------------------------
(* The theorems *)

\* The inductive invariant holds in every reachable state.
THEOREM Invariant == Spec => []IInv
<1>1. Init => CountersExact /\ Exclusion /\ NoLostWakeup
  <2> SUFFICES ASSUME Init PROVE CountersExact /\ Exclusion /\ NoLostWakeup
    OBVIOUS
  <2>1. Readers = {} /\ Writers = {} /\ Queued = {} /\ \A m : Sleepers(m) = {}
    BY DEF Init, Readers, Writers, Queued, Sleepers
  <2> QED BY <2>1, FS_EmptySet DEF Init, CountersExact, Exclusion, NoLostWakeup
<1>2. IInv /\ Typed' /\ [Next]_vars => IInv'
  BY CrowdStep, WakeupStep DEF IInv
<1> QED BY <1>1, <1>2, TypedAlways, PTL DEF Spec, IInv

\* The counters never leave the range the number of threads allows.
THEOREM TypeCorrect == Spec => []TypeOK
<1>1. IInv => TypeOK
  <2> SUFFICES ASSUME IInv PROVE TypeOK
    OBVIOUS
  <2>1. Readers \subseteq Threads /\ Queued \subseteq Threads
    BY DEF Readers, Queued
  <2>2. /\ Cardinality(Readers) <= Cardinality(Threads)
        /\ Cardinality(Queued) <= Cardinality(Threads)
        /\ Cardinality(Threads) \in Nat
    BY <2>1, ThreadsFinite, FS_Subset, FS_CardinalityType
  <2>3. rwlock \in -1..Cardinality(Threads)
    <3>1. CASE Writers # {} BY <3>1, <2>2 DEF IInv, CountersExact
    <3>2. CASE Writers = {} BY <3>2, <2>2, FiniteCrowds DEF IInv, CountersExact
    <3> QED BY <3>1, <3>2
  <2>4. wwrite \in 0..Cardinality(Threads)
    BY <2>2, FiniteCrowds DEF IInv, CountersExact
  <2> QED BY <2>3, <2>4 DEF IInv, Typed, TypeOK
<1> QED BY <1>1, Invariant, PTL

\* rwlock and wwrite always count the threads inside and the queued writers.
THEOREM CountersAlwaysExact == Spec => []CountersExact
BY Invariant, PTL DEF IInv

\* A writer is always alone in the lock.
THEOREM MutualExclusion == Spec => []Exclusion
BY Invariant, PTL DEF IInv

\* The lock is never free with sleepers that nobody is about to wake.
THEOREM NoWakeupIsLost == Spec => []NoLostWakeup
BY Invariant, PTL DEF IInv

\* _WaitLock always comes back in the mode it left.
THEOREM WaitLockKeepsMode == Spec => WaitKeepsMode
<1>1. IInv /\ [Next]_vars =>
        [\A t \in Threads : pc[t] = "in" /\ pc'[t] = "condwait" => mode'[t] = mode[t]]_vars
  <2> SUFFICES ASSUME IInv, Next, NEW t \in Threads, pc[t] = "in", pc'[t] = "condwait"
               PROVE  mode'[t] = mode[t]
    OBVIOUS
  <2> USE DEF Go
  <2>1. ASSUME NEW u \in Threads, WaitLock(u) PROVE mode'[t] = mode[t]
    BY <2>1, ModeReadOff DEF IInv
  <2>2. ASSUME NEW u \in Threads, NEW m \in Modes, Call(u, m) PROVE mode'[t] = mode[t]
    BY <2>2 DEF Call, IInv, Typed
  <2> QED BY <2>1, <2>2 DEF Next, Step, Lock, LockRead, LockWrite, WriteBlocked, StillQueued, UnLock,
                            SendSignal, CondWake, SpuriousWake
<1> QED BY <1>1, Invariant, PTL DEF WaitKeepsMode, Spec

-----------------------------------------------------------------------------
(* Refinement *)

\* What the threads look like to a caller.
held == [t \in Threads |-> IF pc[t] = "in" THEN mode[t] ELSE "none"]

LEMMA HeldIs ==
  /\ Abs!absVars = <<held, Queued>>
  /\ Typed => Abs!ReadersIn = Readers /\ Abs!WritersIn = Writers
BY DEF Abs!absVars, Abs!ReadersIn, Abs!WritersIn, held, Readers, Writers,
       Typed, Modes

\* Every step of the lock is a step of the abstract lock or invisible to it.
LEMMA StepRefines ==
  ASSUME IInv, Typed', [Next]_vars
  PROVE  [Abs!Next]_<<held, Queued>>
<1> USE DEF Go, IInv
<1>1. ASSUME NEW t \in Threads, NEW m \in Modes, Call(t, m)
      PROVE  UNCHANGED <<held, Queued>>
  BY <1>1 DEF Call, Typed, held, Queued
<1>2. ASSUME NEW t \in Threads, LockRead(t)
      PROVE  [Abs!AdmitReader(t)]_<<held, Queued>>
  <2>1. CASE ReadBlocked
    BY <1>2, <2>1 DEF LockRead, Typed, held, Queued
  <2>2. CASE ~ReadBlocked
    <3>1. Writers = {} /\ Queued = {}
      BY <2>2, CrowdInside DEF ReadBlocked, Typed
    <3>2. held' = [held EXCEPT ![t] = "read"] /\ Queued' = Queued /\ held[t] = "none"
      BY <1>2, <2>2 DEF LockRead, Typed, held, Queued
    <3> QED BY <3>1, <3>2, HeldIs DEF Abs!AdmitReader, held
  <2> QED BY <2>1, <2>2
<1>3. ASSUME NEW t \in Threads, LockWrite(t)
      PROVE  [Abs!QueueWriter(t) \/ Abs!AdmitWriter(t)]_<<held, Queued>>
  <2>1. CASE rwlock # 0
    <3>1. Queued' = Queued \cup {t} /\ held' = held /\ held[t] = "none"
      BY <1>3, <2>1 DEF LockWrite, WriteBlocked, StillQueued, Typed, held, Queued
    <3>2. Readers \cup Writers # {}
      <4>1. CASE rwlock < 0 BY <4>1, CrowdInside
      <4>2. CASE ~(rwlock < 0)
        BY <2>1, <4>2, CrowdInside, FS_EmptySet DEF CountersExact
      <4> QED BY <4>1, <4>2
    <3> QED BY <3>1, <3>2, HeldIs DEF Abs!QueueWriter, held
  <2>2. CASE rwlock = 0
    <3>1. Readers = {} /\ Writers = {}
      BY <2>2, CrowdInside
    <3>2. /\ held' = [held EXCEPT ![t] = "write"] /\ Queued' = Queued \ {t}
          /\ held[t] = "none"
      BY <1>3, <2>2 DEF LockWrite, WriteBlocked, StillQueued, Typed, held, Queued
    <3> QED BY <3>1, <3>2, HeldIs DEF Abs!AdmitWriter, held
  <2> QED BY <2>1, <2>2
<1>4. ASSUME NEW t \in Threads, UnLock(t) PROVE Abs!Leave(t)
  <2>1. /\ held' = [held EXCEPT ![t] = "none"] /\ Queued' = Queued
        /\ held[t] # "none"
    BY <1>4 DEF UnLock, Typed, Modes, held, Queued
  <2> QED BY <2>1, HeldIs DEF Abs!Leave, held
<1>5. ASSUME NEW t \in Threads, SendSignal(t) PROVE UNCHANGED <<held, Queued>>
  BY <1>5 DEF SendSignal, Sleepers, Typed, held, Queued
<1>6. ASSUME NEW t \in Threads, WaitLock(t) PROVE Abs!Leave(t)
  <2>1. mode' = mode /\ pc[t] = "in"
    BY <1>6, ModeReadOff DEF WaitLock
  <2>2. \A u \in Threads : /\ (pc'[u] = "in") <=> (pc[u] = "in" /\ u # t)
                           /\ pc'[u] \in {"asleep", "woken"}
                                <=> pc[u] \in {"asleep", "woken"}
    BY <1>6 DEF WaitLock, Sleepers, Typed
  <2>3. held' = [held EXCEPT ![t] = "none"]
    BY <2>1, <2>2 DEF held, Typed
  <2>4. Queued' = Queued /\ held[t] # "none"
    BY <2>1, <2>2 DEF held, Queued, Typed, Modes
  <2> QED BY <2>3, <2>4, HeldIs DEF Abs!Leave, held
<1>7. ASSUME NEW t \in Threads, CondWake(t) PROVE UNCHANGED <<held, Queued>>
  BY <1>7 DEF CondWake, Typed, held, Queued
<1>8. ASSUME NEW t \in Threads, SpuriousWake(t) PROVE UNCHANGED <<held, Queued>>
  BY <1>8 DEF SpuriousWake, Typed, held, Queued
<1>9. CASE UNCHANGED vars
  BY <1>9 DEF vars, held, Queued
<1> QED BY <1>1, <1>2, <1>3, <1>4, <1>5, <1>6, <1>7, <1>8, <1>9
        DEF Next, Step, Lock, Abs!Next

\* The lock implements the abstract lock.
THEOREM Refinement == Spec => ImplementsAbstractLock
<1>1. Init => Abs!Init
  BY DEF Init, Abs!Init, Queued
<1>2. IInv /\ Typed' /\ [Next]_vars => [Abs!Next]_(Abs!absVars)
  <2> SUFFICES ASSUME IInv, Typed', [Next]_vars PROVE [Abs!Next]_(Abs!absVars)
    OBVIOUS
  <2>1. Abs!Next \/ UNCHANGED <<held, Queued>>
    BY StepRefines
  <2>2. UNCHANGED <<held, Queued>> => UNCHANGED Abs!absVars
    BY DEF held, Abs!absVars
  <2> QED BY <2>1, <2>2
<1> QED BY <1>1, <1>2, Invariant, TypedAlways, PTL
        DEF Spec, ImplementsAbstractLock, Abs!Spec, IInv

=============================================================================
