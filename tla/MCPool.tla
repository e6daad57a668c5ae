------------------------------- MODULE MCPool -------------------------------
(* Instance of Pool for TLC. *)
EXTENDS Pool, TLC

CONSTANTS t1, t2, n1, n2, p1, p2, a1, a2, a3

TwoThreads == {t1, t2}
OneName    == {n1}
TwoNames   == {n1, n2}
TwoPools   == {p1, p2}
TwoAreas   == {a1, a2}
ThreeAreas == {a1, a2, a3}

\* The threads, and the addresses malloc returns, are interchangeable.
Symmetric == Permutations(TwoThreads) \cup Permutations(TwoPools)
               \cup Permutations(ThreeAreas)
=============================================================================
