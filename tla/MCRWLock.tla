------------------------------ MODULE MCRWLock ------------------------------
(* Instance of RWLock for TLC.  No symmetry: the run checks progress, too.   *)
EXTENDS RWLock

CONSTANTS t1, t2, t3, t4

FourThreads == {t1, t2, t3, t4}
=============================================================================
