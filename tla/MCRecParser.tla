----------------------------- MODULE MCRecParser -----------------------------
(* Texts long enough for a record in a record, with dimensions and modifiers. *)
EXTENDS RecParser
=============================================================================
