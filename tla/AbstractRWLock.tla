--------------------------- MODULE AbstractRWLock ---------------------------
(***************************************************************************)
(* What the lock of src/src/lock.c promises its callers, without mutex,    *)
(* counters or condition variables: many readers or one writer, and no     *)
(* reader admitted past a writer that is already queued.                   *)
(***************************************************************************)

CONSTANT Threads    \* the threads that call _Lock, _UnLock and _WaitLock

VARIABLES holds,    \* holds[t]: "none", "read" or "write"
          queued    \* the writers that found the lock taken and now wait

absVars == <<holds, queued>>

ReadersIn == {t \in Threads : holds[t] = "read"}
WritersIn == {t \in Threads : holds[t] = "write"}

Init == /\ holds = [t \in Threads |-> "none"]
        /\ queued = {}

AdmitReader(t) ==
  /\ holds[t] = "none"
  /\ t \notin queued
  /\ WritersIn = {}
  /\ queued = {}
  /\ holds' = [holds EXCEPT ![t] = "read"]
  /\ UNCHANGED queued

QueueWriter(t) ==
  /\ holds[t] = "none"
  /\ t \notin queued
  /\ ReadersIn \cup WritersIn # {}
  /\ queued' = queued \cup {t}
  /\ UNCHANGED holds

AdmitWriter(t) ==
  /\ holds[t] = "none"
  /\ ReadersIn \cup WritersIn = {}
  /\ holds' = [holds EXCEPT ![t] = "write"]
  /\ queued' = queued \ {t}

Leave(t) ==
  /\ holds[t] # "none"
  /\ holds' = [holds EXCEPT ![t] = "none"]
  /\ UNCHANGED queued

Next == \E t \in Threads :
          AdmitReader(t) \/ QueueWriter(t) \/ AdmitWriter(t) \/ Leave(t)

Spec == Init /\ [][Next]_absVars

=============================================================================
