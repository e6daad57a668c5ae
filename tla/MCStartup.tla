------------------------------ MODULE MCStartup ------------------------------
(* Startup with a codec table of two rules, enough for one to be missing while   *)
(* the other is there; the threads are alike.                                    *)
EXTENDS Startup, TLC

MCRules == <<"CSV", "JSON">>
ThreadsAlike == Permutations(Threads)
=============================================================================
