-------------------------------- MODULE MCLex --------------------------------
(* Texts of seven characters at most, in which an include fits, and two      *)
(* FILEs: one that includes and one that is included.                        *)
EXTENDS Lex
=============================================================================
