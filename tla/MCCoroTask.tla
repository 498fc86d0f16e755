----------------------------- MODULE MCCoroTask -----------------------------
(* The model-checking instance of CoroTask. *)
EXTENDS CoroTask
=============================================================================
