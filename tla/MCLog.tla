------------------------------- MODULE MCLog -------------------------------
(* The model-checking instance of Log. *)
EXTENDS Log
=============================================================================
