---------------------------- MODULE MCSubstitute -----------------------------
(* Model-checking instance of Substitute. *)
EXTENDS Substitute
=============================================================================
